---- MODULE Spec2Model ----
(***************************************************************************)
(* Model of the table engine of pddb (src/pddb/pddb.py, PandasDatabase).   *)
(*                                                                         *)
(* A table is a pandas DataFrame: an ordered list of column names and an   *)
(* ordered list of rows, each row carrying its index label.  The engine    *)
(* never resets index labels, so they are part of the state.  Every public *)
(* method is a pure operator from the engine state `self` to a result      *)
(* [self, err, ret]; an exception leaves in `self` whatever the method had *)
(* already changed when it was raised.  The actions apply the operators.   *)
(***************************************************************************)
EXTENDS Integers, Sequences, FiniteSets, TLC

VARIABLES
    db,         \* self._db      : table name -> DataFrame
    schemas,    \* self._schemas : table name -> list of column names
    rowgens,    \* self._rowgens : table name -> output of the row generator
    files,      \* <root>/<name>/<table>.csv : table name -> file content
    uuid_count, \* number of uuid.uuid4() values drawn so far
    cfg,        \* constructor options (fixed for the life of the instance)
    bottle_app, \* the Bottle application of bind_bottle_routes and its arguments
    last,       \* the last call: operation, error raised, branch taken
    _save_last,         \* self._save_last : time of the last flush, 0 at first
    _save_queue_len,    \* self._save_queue_len : saves counted since the last flush
    _save_pending_flag, \* self._save_pending_flag : a delayed save is scheduled
    threads,    \* the background threads started and not yet finished
    clock,      \* the value time() returns
    _lock,      \* self._lock : the thread that holds the lock, or Unlocked
    calls       \* per calling thread, the call it is in and its local variables

vars == <<db, schemas, rowgens, files, uuid_count, cfg, bottle_app, last,
          _save_last, _save_queue_len, _save_pending_flag, threads, clock, _lock, calls>>

-----------------------------------------------------------------------------
(* Bounds of the model *)

\* number of uuid4 values a behaviour may draw (bounds the number of inserts)
MaxIds == 3

\* number of rows a table may hold (bounds the inserts into a full table)
MaxRows == 2

\* the table name callers use
TNames == {"t"}

\* column names callers use besides the id column
UserCols == {"a", "b"}

\* the save_queue_max option of a database with deferred saving
QueueMax == 1

\* the save_wait option of a database with deferred saving, in clock ticks
SaveWait == 1

\* the last value of the clock
MaxClock == 4

\* number of background threads alive at a time
MaxThreads == 4

-----------------------------------------------------------------------------
(* Program constants *)

_id_colname == "__id__"

_blank_schema == <<_id_colname>>

\* the i-th value returned by uuid.uuid4(): pairwise distinct, never a caller's value
uuid4(i) == <<"uuid", i>>

\* pandas' missing value (None / NaN)
None == <<"NaN", 0>>

\* a caller's plain string
Str(v) == <<"str", v>>

NoErr == "ok"

\* The exceptions the engine raises, by their source line
ErrTableNotFound == "ValueError: table does not exist"          \* pddb.py:861

ErrNoSchemaStore == "ValueError: table not found in schema store"  \* pddb.py:146

ErrSchemasRequired == "ValueError: table schemas must be provided"  \* pddb.py:188

ErrNoParameter == "ValueError: at least one parameter"          \* pddb.py:206

ErrWouldOverwrite == "ValueError: table already exists"         \* pddb.py:236

ErrNoSchema == "ValueError: schema was not passed"              \* pddb.py:252

ErrMissingId == "ValueError: schema must contain id column"     \* pddb.py:892

ErrInvalidColumn == "ValueError: invalid column name"           \* pddb.py:900

ErrUnknownColumn == "ValueError: column does not exist in schema"  \* pddb.py:596

ErrConflict == "ValueError: default values conflict"            \* pddb.py:739

ErrDictValues == "ValueError: dictionary values must be of type"   \* pddb.py:936

ErrTypeIter == "ValueError: parameter must be of type"          \* pddb.py:878

ErrOutputType == "RuntimeError: record output type must be one of"  \* pddb.py:794

ErrOutputCast == "RuntimeError: records could not be cast"          \* pddb.py:812, 821

KeyError == "KeyError"                                          \* pandas label lookup

IndexingError == "IndexingError"                                \* pandas boolean indexing

-----------------------------------------------------------------------------
(* Generic helpers for dicts (functions) and lists (sequences) *)

EmptyDict == [k \in {} |-> None]

Put(d, k, v) == [x \in (DOMAIN d) \cup {k} |-> IF x = k THEN v ELSE d[x]]

Del(d, k) == [x \in (DOMAIN d) \ {k} |-> d[x]]

\* dict.update: the entries of e win
Overlay(d, e) == [x \in (DOMAIN d) \cup (DOMAIN e) |-> IF x \in DOMAIN e THEN e[x] ELSE d[x]]

Range(s) == {s[i] : i \in 1..Len(s)}

RECURSIVE SelectSeq2(_, _)
\* the subsequence of s whose elements are in set keep
SelectSeq2(s, keep) ==
    IF s = <<>> THEN <<>>
    ELSE IF Head(s) \in keep THEN <<Head(s)>> \o SelectSeq2(Tail(s), keep)
         ELSE SelectSeq2(Tail(s), keep)

\* iteration order of a dict's keys: callers list their columns in this order,
\* and insert() adds the id key last (pddb.py:637)
KeyOrder == <<"a", "b", "c", "c*", _id_colname>>

Keys(d) == SelectSeq2(KeyOrder, DOMAIN d)

\* iteration order of a dict keyed by table names
TNameOrder == <<"t", "u">>

-----------------------------------------------------------------------------
(* Optional arguments: <<>> is Python's None, <<x>> is the value x *)

Nothing == <<>>

Some(x) == <<x>>

-----------------------------------------------------------------------------
(* Constructor options (pddb.py:125-136) *)

dynamic_schema == cfg.dynamic_schema

auto_load == cfg.auto_load

auto_save == cfg.auto_save

persistent == cfg.persistent

deferred_save == cfg.deferred_save

save_wait == cfg.save_wait

save_queue_max == cfg.save_queue_max

\* time()
time == clock

\* the engine state `self`
Self == [db |-> db, schemas |-> schemas, rowgens |-> rowgens, files |-> files,
         uuid_count |-> uuid_count, _save_last |-> _save_last,
         _save_queue_len |-> _save_queue_len, _save_pending_flag |-> _save_pending_flag,
         threads |-> threads]

Raise(self, e) == [self |-> self, err |-> e, ret |-> Nothing]

Return(self, r) == [self |-> self, err |-> NoErr, ret |-> r]

-----------------------------------------------------------------------------
(* pandas DataFrame *)

\* DataFrame(columns=cols, dtype=str)
DataFrame(cols) == [columns |-> cols, rows |-> <<>>]

\* dataframe.index
Index(dataframe) == {dataframe.rows[i].ix : i \in 1..Len(dataframe.rows)}

\* the rows of dataframe whose label is in keep, in stored order
RECURSIVE SelectRows(_, _)
SelectRows(rows, keep) ==
    IF rows = <<>> THEN <<>>
    ELSE IF Head(rows).ix \in keep THEN <<Head(rows)>> \o SelectRows(Tail(rows), keep)
         ELSE SelectRows(Tail(rows), keep)

\* dataframe[field_key] = None : adds the column, or blanks it when it exists
SetColumnNone(dataframe, field_key) ==
    [columns |-> IF field_key \in Range(dataframe.columns) THEN dataframe.columns
                 ELSE Append(dataframe.columns, field_key),
     rows |-> [i \in 1..Len(dataframe.rows) |->
                 [ix |-> dataframe.rows[i].ix,
                  rec |-> Put(dataframe.rows[i].rec, field_key, None)]]]

\* dataframe.loc[label] = Series(record): the Series is aligned on the
\* frame's columns; an existing label is overwritten, a new one is appended
SetRow(dataframe, label, record) ==
    LET rec == [c \in Range(dataframe.columns) |->
                   IF c \in DOMAIN record THEN record[c] ELSE None]
    IN  IF label \in Index(dataframe)
        THEN [dataframe EXCEPT !.rows =
                 [i \in 1..Len(dataframe.rows) |->
                     IF dataframe.rows[i].ix = label
                     THEN [ix |-> label, rec |-> rec] ELSE dataframe.rows[i]]]
        ELSE [dataframe EXCEPT !.rows = Append(dataframe.rows, [ix |-> label, rec |-> rec])]

\* dataframe.loc[ixs, field_key] = field_val
SetCells(dataframe, ixs, field_key, field_val) ==
    [columns |-> IF field_key \in Range(dataframe.columns) THEN dataframe.columns
                 ELSE Append(dataframe.columns, field_key),
     rows |-> [i \in 1..Len(dataframe.rows) |->
                 IF dataframe.rows[i].ix \in ixs
                 THEN [ix |-> dataframe.rows[i].ix,
                       rec |-> Put(dataframe.rows[i].rec, field_key, field_val)]
                 ELSE [ix |-> dataframe.rows[i].ix,
                       rec |-> IF field_key \in DOMAIN dataframe.rows[i].rec
                               THEN dataframe.rows[i].rec
                               ELSE Put(dataframe.rows[i].rec, field_key, None)]]]

\* dataframe.to_csv(filepath, cols=schema, index=False): the header is the
\* given column list, the index labels are not written
to_csv(dataframe, schema) ==
    [header |-> schema,
     lines |-> [i \in 1..Len(dataframe.rows) |->
                  [c \in Range(schema) |->
                      IF c \in DOMAIN dataframe.rows[i].rec
                      THEN dataframe.rows[i].rec[c] ELSE None]]]

\* read_csv(tpath, dtype=str): columns from the header, a fresh 0..n-1 index
read_csv(content) ==
    [columns |-> content.header,
     rows |-> [i \in 1..Len(content.lines) |-> [ix |-> i - 1, rec |-> content.lines[i]]]]

-----------------------------------------------------------------------------
(* Names *)

\* the name as the caller wrote it
lower_keeping_case(s) == s

\* str.lower() on the names callers use
lower(s) == IF s = "T" THEN "t" ELSE s

\* re.match(_colname_rgx, col_name) with _colname_rgx = ^[a-zA-Z0-9_]*$ :
\* "c*" is the one column name of the model that does not match
_colname_rgx_match(col_name) == col_name # "c*"

\* _check_columns() that leaves a schema without the id column as it is
_check_columns_without_id(columns, add_id) ==
    IF \E i \in 1..Len(columns) : ~_colname_rgx_match(columns[i])
    THEN [err |-> ErrInvalidColumn, columns |-> columns]
    ELSE [err |-> NoErr, columns |-> columns]

\* _check_columns(columns, add_id)
_check_columns(columns, add_id) ==
    LET cols == IF _id_colname \notin Range(columns) /\ add_id
                THEN Append(columns, _id_colname) ELSE columns
    IN  IF _id_colname \notin Range(columns) /\ ~add_id
        THEN [err |-> ErrMissingId, columns |-> columns]
        ELSE IF \E i \in 1..Len(cols) : ~_colname_rgx_match(cols[i])
             THEN [err |-> ErrInvalidColumn, columns |-> cols]
             ELSE [err |-> NoErr, columns |-> cols]

-----------------------------------------------------------------------------
(* Persistence *)

\* a flush that writes the tables that have rows and removes no file
_save_now_tables_keeping_files(self, tnames, fs) ==
    [t \in (DOMAIN fs) \cup {x \in tnames : Len(self.db[x].rows) > 0} |->
        IF t \in tnames /\ Len(self.db[t].rows) > 0
        THEN to_csv(self.db[t], self.schemas[t]) ELSE fs[t]]

\* the loop of _save_now over self._db.items(): a table with rows is written,
\* the file of an empty table is removed
RECURSIVE _save_now_tables(_, _, _)
_save_now_tables(self, tnames, fs) ==
    IF tnames = {} THEN fs
    ELSE LET dataframe_key == CHOOSE t \in tnames : TRUE
             dataframe_val == self.db[dataframe_key]
             fs2 == IF Len(dataframe_val.rows) > 0
                    THEN Put(fs, dataframe_key,
                             to_csv(dataframe_val, self.schemas[dataframe_key]))
                    ELSE Del(fs, dataframe_key)
         IN  _save_now_tables(self, tnames \ {dataframe_key}, fs2)

\* _save_now(): every table is flushed, then the time of the flush is
\* recorded and the queue is emptied (pddb.py:333-334)
_save_now(self) ==
    IF ~persistent THEN self
    ELSE [self EXCEPT !.files = _save_now_tables(self, DOMAIN self.db, self.files),
                      !._save_last = time,
                      !._save_queue_len = 0]

\* threading.Thread(target=...).start()
Start(self, thread) == [self EXCEPT !.threads = Append(@, thread)]

\* the thread that runs _save_now
FlushThread == [target |-> "_save_now", waittime |-> 0, started |-> 0]

\* the thread that runs worder: _save_defer(waittime), started at time now
WorderThread(waittime, now) == [target |-> "_save_defer", waittime |-> waittime, started |-> now]

\* _save_defer(): "Is the queue long enough?" (pddb.py:360-364)
_save_defer_queue(self) ==
    IF save_queue_max > 0 /\ self._save_queue_len > save_queue_max
    THEN Start(self, FlushThread)
    ELSE IF save_queue_max > 0
    THEN [self EXCEPT !._save_queue_len = @ + 1]
    ELSE self

\* a _save_defer that starts no timer thread
_save_defer_wait_unscheduled(self, now) ==
    IF save_wait > 0 /\ now - self._save_last > save_wait THEN Start(self, FlushThread)
    ELSE self

\* _save_defer(): "Has it been longer than self.save_wait?" (pddb.py:352-358);
\* the pending flag was reset just before
_save_defer_wait(self, now) ==
    IF save_wait > 0 /\ now - self._save_last > save_wait
    THEN Start(self, FlushThread)
    ELSE IF save_wait > 0 /\ ~self._save_pending_flag
    THEN Start([self EXCEPT !._save_pending_flag = TRUE],
               WorderThread(save_wait - now + self._save_last, now))
    ELSE self

\* _save_defer(): what follows the sleep (pddb.py:345-364), at time now
_save_defer_body(self, now) ==
    _save_defer_queue(
        _save_defer_wait([self EXCEPT !._save_pending_flag = FALSE,
                                      !._save_last = IF @ = 0 THEN now ELSE @],
                         now))

\* _save_defer(waittime) in the thread that has slept waittime: a cleared
\* pending flag cancels the delayed save (pddb.py:338-343)
_save_defer(self, waittime) ==
    IF waittime > 0 /\ ~self._save_pending_flag THEN self
    ELSE _save_defer_body(self, time)

\* save()
save(self) == IF deferred_save THEN _save_defer(self, 0) ELSE _save_now(self)

-----------------------------------------------------------------------------
(* Table creation *)

\* load(): the loop "for schema_key, schema_value in table_schemas.items()"
\* (pddb.py:185-186) over the keys in todo
RECURSIVE load_check_schemas(_, _)
load_check_schemas(table_schemas, todo) ==
    IF todo = {} THEN [err |-> NoErr, table_schemas |-> Some(table_schemas)]
    ELSE LET schema_key == CHOOSE k \in todo : TRUE
             chk == _check_columns(table_schemas[schema_key], TRUE)
         IN  IF chk.err # NoErr THEN [err |-> chk.err, table_schemas |-> Some(table_schemas)]
             ELSE load_check_schemas(Put(table_schemas, schema_key, chk.columns),
                                     todo \ {schema_key})

\* _check_case_dict(dic): every key lower-cased
_check_case_dict(dic) ==
    [k \in {lower(x) : x \in DOMAIN dic} |->
        dic[CHOOSE x \in DOMAIN dic : lower(x) = k]]

\* load(): the loop of pddb.py:213-217
RECURSIVE load_register(_, _, _, _)
load_register(self, table_names, table_schemas, table_rowgens) ==
    IF table_names = <<>> THEN self
    ELSE LET tname == Head(table_names)
             s1 == IF table_schemas # Nothing /\ tname \in DOMAIN table_schemas[1]
                   THEN [self EXCEPT !.schemas = Put(self.schemas, tname, table_schemas[1][tname])]
                   ELSE self
             s2 == IF table_rowgens # Nothing /\ tname \in DOMAIN table_rowgens[1]
                   THEN [s1 EXCEPT !.rowgens = Put(s1.rowgens, tname, table_rowgens[1][tname])]
                   ELSE s1
         IN  load_register(s2, Tail(table_names), table_schemas, table_rowgens)

\* load(): the loop of pddb.py:219-253, run under the lock
RECURSIVE load_tables(_, _, _)
load_tables(self, table_names, table_schemas) ==
    IF table_names = <<>> THEN Return(self, Nothing)
    ELSE LET tname == lower(Head(table_names))
             rest == Tail(table_names)
         IN  IF tname \in DOMAIN self.files
             THEN IF auto_load
                  THEN LET dataframe == read_csv(self.files[tname])
                           s1 == [self EXCEPT !.db = Put(self.db, tname, dataframe)]
                           chk == _check_columns(dataframe.columns, FALSE)
                       IN  IF chk.err # NoErr THEN Raise(s1, chk.err)
                           ELSE load_tables(
                                   [s1 EXCEPT !.schemas = Put(s1.schemas, tname, chk.columns)],
                                   rest, table_schemas)
                  ELSE IF persistent THEN Raise(self, ErrWouldOverwrite)
                       ELSE load_tables(self, rest, table_schemas)
             ELSE IF table_schemas # Nothing /\ tname \in DOMAIN self.schemas
             THEN load_tables(
                     [self EXCEPT !.db = Put(self.db, tname, DataFrame(self.schemas[tname]))],
                     rest, table_schemas)
             ELSE IF dynamic_schema
             THEN load_tables(
                     [self EXCEPT !.db = Put(self.db, tname, DataFrame(_blank_schema)),
                                  !.schemas = Put(self.schemas, tname, _blank_schema)],
                     rest, table_schemas)
             ELSE Raise(self, ErrNoSchema)

\* load(): the schema check of pddb.py:183-188; table_schemas comes back
\* lower-cased, each schema with the id column
load_schemas(table_schemas) ==
    IF table_schemas = Nothing THEN [err |-> NoErr, table_schemas |-> Nothing]
    ELSE load_check_schemas(_check_case_dict(table_schemas[1]),
                            DOMAIN _check_case_dict(table_schemas[1]))

\* load(): the row generators of pddb.py:191-192
load_rowgens(table_rowgens) ==
    IF table_rowgens = Nothing THEN Nothing ELSE Some(_check_case_dict(table_rowgens[1]))

\* load(): the table names, given or inferred (pddb.py:195-208)
load_names(table_names, table_schemas, table_rowgens) ==
    IF table_names # Nothing
    THEN [i \in 1..Len(table_names[1]) |-> lower(table_names[1][i])]
    ELSE IF table_schemas # Nothing THEN SelectSeq2(TNameOrder, DOMAIN table_schemas[1])
    ELSE IF table_rowgens # Nothing THEN SelectSeq2(TNameOrder, DOMAIN table_rowgens[1])
    ELSE <<>>

\* load(): the two loops over the table names (pddb.py:211-253)
load_names_loops(self, names, table_schemas, table_rowgens) ==
    load_tables(load_register(self, names, table_schemas, table_rowgens),
                names, table_schemas)

\* load(): what follows the schema check, whose outcome is chk
load_checked(self, table_names, chk, table_rowgens) ==
    IF chk.err # NoErr THEN Raise(self, chk.err)
    ELSE IF chk.table_schemas = Nothing /\ ~dynamic_schema
    THEN Raise(self, ErrSchemasRequired)
    ELSE IF table_names = Nothing /\ chk.table_schemas = Nothing /\ table_rowgens = Nothing
    THEN Raise(self, ErrNoParameter)
    ELSE load_names_loops(self, load_names(table_names, chk.table_schemas, table_rowgens),
                          chk.table_schemas, table_rowgens)

\* load(table_names, table_schemas, table_rowgens)
load(self, table_names, table_schemas, table_rowgens) ==
    load_checked(self, table_names, load_schemas(table_schemas), load_rowgens(table_rowgens))

\* _check_tname(): after self.load(tname), whose outcome is l
_check_tname_loaded(l, tname) ==
    IF l.err # NoErr THEN l ELSE Return(l.self, tname)

\* _check_tname(tname, noload): ret is the lower-cased name
_check_tname(self, tname, noload) ==
    IF lower(tname) \notin DOMAIN self.db
    THEN IF auto_load /\ ~noload
         THEN _check_tname_loaded(load(self, Some(<<lower(tname)>>), Nothing, Nothing),
                                  lower(tname))
         ELSE Raise(self, ErrTableNotFound)
    ELSE Return(self, lower(tname))

\* get_table_names(): the keys of self._db
get_table_names(self) == DOMAIN self.db

\* get_table_schema(): what follows _check_tname(tname, noload=True), whose
\* outcome is chk
get_table_schema_checked(chk) ==
    IF chk.err # NoErr THEN chk
    ELSE IF chk.ret \notin DOMAIN chk.self.schemas THEN Raise(chk.self, ErrNoSchemaStore)
    ELSE Return(chk.self, chk.self.schemas[chk.ret])

\* get_table_schema(tname)
get_table_schema(self, tname) == get_table_schema_checked(_check_tname(self, tname, TRUE))

\* a drop that removes the table and leaves its file
drop_table_keeping_file(chk, table_names) ==
    IF chk.err # NoErr THEN chk
    ELSE Return([chk.self EXCEPT !.db = Del(chk.self.db, chk.ret)], Nothing)

RECURSIVE drop(_, _)
\* drop(): one turn of the loop of pddb.py:266-279; chk is the outcome of
\* _check_tname
drop_table(chk, table_names) ==
    IF chk.err # NoErr THEN chk
    ELSE drop([chk.self EXCEPT !.db = Del(chk.self.db, chk.ret),
                               !.files = IF persistent THEN Del(chk.self.files, chk.ret)
                                         ELSE chk.self.files],
              table_names)

\* drop(table_names)
drop(self, table_names) ==
    IF table_names = <<>> THEN Return(self, Nothing)
    ELSE drop_table(_check_tname(self, lower(Head(table_names)), TRUE), Tail(table_names))

-----------------------------------------------------------------------------
(* Conditions *)

\* A condition value as the caller writes it: a string, a list, or None
CondStr(v) == [kind |-> "str", items |-> <<v>>]

CondList(vs) == [kind |-> "list", items |-> vs]

CondNone == [kind |-> "None", items |-> <<None>>]

\* _check_conditions(conditions): every value becomes a list of strings;
\* None is not among the value types _check_dict_type accepts (pddb.py:907),
\* and a list item that is not a string is rejected by _check_type_iter
_check_conditions(conditions) ==
    IF \E k \in DOMAIN conditions : conditions[k].kind = "None"
    THEN [err |-> ErrDictValues, conditions |-> EmptyDict]
    ELSE IF \E k \in DOMAIN conditions :
               \E i \in 1..Len(conditions[k].items) : conditions[k].items[i] = None
    THEN [err |-> ErrTypeIter, conditions |-> EmptyDict]
    ELSE [err |-> NoErr, conditions |-> [k \in DOMAIN conditions |-> conditions[k].items]]

\* a checked condition, as delete() and upsert() hand it on to find()
Checked(conditions) == [k \in DOMAIN conditions |-> CondList(conditions[k])]

\* Series([b] * len(dataframe)): the default index 0..n-1
FullMask(dataframe, b) == [i \in 0..(Len(dataframe.rows) - 1) |-> b]

\* dataframe[cond_key] compared with the condition: a boolean Series on the
\* frame's own index
ColumnMatch(dataframe, cond_key, cond_val) ==
    [l \in Index(dataframe) |->
        LET r == CHOOSE i \in 1..Len(dataframe.rows) : dataframe.rows[i].ix = l
        IN  \E j \in 1..Len(cond_val) : dataframe.rows[r].rec[cond_key] = cond_val[j]]

\* mask &= other: the right operand is reindexed like the left one and the
\* result keeps the left operand's index; a label the right operand does not
\* have counts as False
SeriesAnd(mask, other) ==
    [l \in DOMAIN mask |-> mask[l] /\ l \in DOMAIN other /\ other[l]]

\* ~mask
SeriesNot(mask) == [l \in DOMAIN mask |-> ~mask[l]]

\* _get_condition_mask: the loop over condition.items(), with its break
RECURSIVE _get_condition_mask_loop(_, _, _, _)
_get_condition_mask_loop(dataframe, condition, cond_keys, mask) ==
    IF cond_keys = <<>> THEN mask
    ELSE LET cond_key == Head(cond_keys)
             cond_val == condition[cond_key]
         IN  IF cond_key \notin Range(dataframe.columns)
             THEN FullMask(dataframe, FALSE)
             ELSE _get_condition_mask_loop(
                     dataframe, condition, Tail(cond_keys),
                     IF Len(cond_val) >= 1
                     THEN SeriesAnd(mask, ColumnMatch(dataframe, cond_key, cond_val))
                     ELSE mask)

\* _get_condition_mask(dataframe, condition)
_get_condition_mask(dataframe, condition) ==
    _get_condition_mask_loop(dataframe, condition, Keys(condition), FullMask(dataframe, TRUE))

\* dataframe[mask] with a boolean Series: the mask is reindexed to the frame's
\* index; a frame label the mask does not have makes pandas raise IndexingError
BoolIndex(dataframe, mask) ==
    IF Index(dataframe) \subseteq DOMAIN mask
    THEN [err |-> NoErr,
          dataframe |-> [dataframe EXCEPT !.rows =
                            SelectRows(dataframe.rows, {l \in Index(dataframe) : mask[l]})]]
    ELSE [err |-> IndexingError, dataframe |-> dataframe]

\* dataframe[columns] with a list of column names
Project(dataframe, columns) ==
    IF Range(columns) \subseteq Range(dataframe.columns)
    THEN [err |-> NoErr,
          dataframe |-> [columns |-> columns,
                         rows |-> [i \in 1..Len(dataframe.rows) |->
                                     [ix |-> dataframe.rows[i].ix,
                                      rec |-> [c \in Range(columns) |-> dataframe.rows[i].rec[c]]]]]]
    ELSE [err |-> KeyError, dataframe |-> dataframe]

\* the outcome of a method whose last step is the selection m
Selected(self, m) ==
    IF m.err # NoErr THEN Raise(self, m.err) ELSE Return(self, m.dataframe)

\* find(): the conditions not to match (pddb.py:466-471), applied to the
\* selection m made so far
find_where_not(self, m, where_not) ==
    IF m.err # NoErr THEN Raise(self, m.err)
    ELSE IF Cardinality(DOMAIN where_not) > 0
    THEN Selected(self, BoolIndex(m.dataframe,
                                  SeriesNot(_get_condition_mask(m.dataframe, where_not))))
    ELSE Return(self, m.dataframe)

\* find(): the conditions to match (pddb.py:462-463), applied to the
\* projection p
find_where(self, p, where, where_not) ==
    IF p.err # NoErr THEN Raise(self, p.err)
    ELSE find_where_not(self,
                        IF Cardinality(DOMAIN where) > 0
                        THEN BoolIndex(p.dataframe, _get_condition_mask(p.dataframe, where))
                        ELSE p,
                        where_not)

\* find(): the columns argument (pddb.py:457-459)
find_columns(self, dataframe, where, where_not, columns) ==
    find_where(self,
               IF Len(columns) > 0 /\ Len(dataframe.rows) > 0
               THEN Project(dataframe, columns)
               ELSE [err |-> NoErr, dataframe |-> dataframe],
               where, where_not)

\* find(): what follows the argument checks, whose outcomes are chk, w and wn
find_checked(self, chk, w, wn, columns) ==
    IF chk.err # NoErr THEN Return(self, DataFrame(<<>>))
    ELSE IF w.err # NoErr THEN Raise(self, w.err)
    ELSE IF wn.err # NoErr THEN Raise(self, wn.err)
    ELSE find_columns(self, self.db[chk.ret], w.conditions, wn.conditions, columns)

\* find() without noload=True in its call of _check_tname: a missing table is
\* loaded before it is searched
find_autoloading(self, tname, where, where_not, columns) ==
    find_checked(_check_tname(self, tname, FALSE).self, _check_tname(self, tname, FALSE),
                 _check_conditions(where), _check_conditions(where_not), columns)

\* find(tname, where, where_not, columns): ret is the selected DataFrame
find(self, tname, where, where_not, columns) ==
    find_checked(self, _check_tname(self, tname, TRUE), _check_conditions(where),
                 _check_conditions(where_not), columns)

\* find_one(): _output(records, single=True) keeps the first record, or an
\* empty Series when there is none (pddb.py:799-800); f is the outcome of find
find_one_output(f) ==
    IF f.err # NoErr THEN f
    ELSE Return(f.self, IF Len(f.ret.rows) > 0 THEN f.ret.rows[1].rec ELSE EmptyDict)

\* find_one(tname, where, where_not, columns): ret is the Series of the record
find_one(self, tname, where, where_not, columns) ==
    find_one_output(find(self, tname, where, where_not, columns))

\* "if self.auto_save: self.save()"
AutoSave(self) == IF auto_save THEN save(self) ELSE self

\* delete(): the rows find selected are removed by index label
\* (pddb.py:566-578); f is the outcome of find
delete_rows(self, tname, f) ==
    IF f.err # NoErr THEN Raise(self, f.err)
    ELSE Return(AutoSave([self EXCEPT !.db =
                            Put(self.db, tname,
                                [self.db[tname] EXCEPT !.rows =
                                    SelectRows(self.db[tname].rows,
                                               Index(self.db[tname]) \ Index(f.ret))])]),
                f.ret)

\* delete(): what follows the argument checks, whose outcomes are chk, w and wn
delete_checked(chk, w, wn) ==
    IF chk.err # NoErr THEN chk
    ELSE IF w.err # NoErr THEN Raise(chk.self, w.err)
    ELSE IF wn.err # NoErr THEN Raise(chk.self, wn.err)
    ELSE delete_rows(chk.self, chk.ret,
                     find(chk.self, chk.ret, Checked(w.conditions), Checked(wn.conditions),
                          <<>>))

\* delete(tname, where, where_not)
delete(self, tname, where, where_not) ==
    delete_checked(_check_tname(self, tname, FALSE), _check_conditions(where),
                   _check_conditions(where_not))

-----------------------------------------------------------------------------
(* Mutations *)

\* _update_schema(tname, columns): the loop over columns.  A new column is
\* appended to the schema list in place before _check_columns runs, so the
\* schema keeps it when _check_columns raises.
RECURSIVE _update_schema(_, _, _)
_update_schema(self, tname, columns) ==
    IF columns = <<>> THEN Return(self, Nothing)
    ELSE LET field_key == Head(columns)
         IN  IF field_key \in Range(self.schemas[tname])
             THEN _update_schema(self, tname, Tail(columns))
             ELSE IF dynamic_schema
             THEN LET appended == Append(self.schemas[tname], field_key)
                      s1 == [self EXCEPT !.schemas = Put(self.schemas, tname, appended)]
                      chk == _check_columns(appended, FALSE)
                  IN  IF chk.err # NoErr THEN Raise(s1, chk.err)
                      ELSE _update_schema(
                              [s1 EXCEPT !.db = Put(s1.db, tname,
                                                    SetColumnNone(s1.db[tname], field_key))],
                              tname, Tail(columns))
             ELSE Raise(self, ErrUnknownColumn)

\* _check_dict_type(str, str, record): every value must be a string
_check_dict_type(record) ==
    IF \E k \in DOMAIN record : record[k] = None THEN ErrDictValues ELSE NoErr

\* row[columns] on the Series of the new record
SeriesProject(row, columns) ==
    IF Range(columns) \subseteq DOMAIN row
    THEN [err |-> NoErr, row |-> [c \in Range(columns) |-> row[c]]]
    ELSE [err |-> KeyError, row |-> row]

\* insert(): the returned Series, row or row[columns] (pddb.py:661-664)
insert_output(self, record_new, columns) ==
    IF Len(columns) > 0
    THEN IF SeriesProject(record_new, columns).err # NoErr
         THEN Raise(self, SeriesProject(record_new, columns).err)
         ELSE Return(self, SeriesProject(record_new, columns).row)
    ELSE Return(self, record_new)

\* insert(): the row is stored at the label len(dataframe) and the table is
\* saved (pddb.py:654-659); upd is the outcome of _update_schema
insert_row(upd, tname, record_new, columns) ==
    IF upd.err # NoErr THEN Raise(upd.self, upd.err)
    ELSE insert_output(
            AutoSave([upd.self EXCEPT !.db =
                        Put(upd.self.db, tname,
                            SetRow(upd.self.db[tname], Len(upd.self.db[tname].rows),
                                   record_new))]),
            record_new, columns)

\* a record to store in which the row generator's output wins
insert_record_new_generated(self, tname, record) ==
    IF tname \in DOMAIN self.rowgens
    THEN Overlay(Put(record, _id_colname, uuid4(self.uuid_count)), self.rowgens[tname])
    ELSE Put(record, _id_colname, uuid4(self.uuid_count))

\* insert(): the calls of the table's row generator (pddb.py:641-643)
insert_rowgen_calls(self, tname) == IF tname \in DOMAIN self.rowgens THEN 1 ELSE 0

\* insert(): the record to store: the row generator's output overlaid with the
\* caller's record, which by then carries the new id (pddb.py:637-648)
insert_record_new(self, tname, record) ==
    IF tname \in DOMAIN self.rowgens
    THEN Overlay(self.rowgens[tname], Put(record, _id_colname, uuid4(self.uuid_count)))
    ELSE Put(record, _id_colname, uuid4(self.uuid_count))

\* insert(): under the lock (pddb.py:650-655); self has drawn the new id
insert_locked(self, tname, record, columns) ==
    insert_row(_update_schema(self, tname, Keys(insert_record_new(self, tname, record))),
               tname, insert_record_new(self, tname, record), columns)

\* insert(): what follows _check_tname, whose outcome is chk
insert_checked(chk, record, columns) ==
    IF chk.err # NoErr THEN chk
    ELSE IF _check_dict_type(record) # NoErr
    THEN Raise(chk.self, _check_dict_type(record))
    ELSE insert_locked([chk.self EXCEPT !.uuid_count = @ + 1], chk.ret, record, columns)

\* insert(tname, record, columns): ret is the Series of the new record
insert(self, tname, record, columns) ==
    insert_checked(_check_tname(self, tname, FALSE), record, columns)

\* upsert(): the loop "for field_key, field_val in record.items()" (pddb.py:752-753)
RECURSIVE upsert_set_fields(_, _, _, _)
upsert_set_fields(dataframe, ixs, record, field_keys) ==
    IF field_keys = <<>> THEN dataframe
    ELSE upsert_set_fields(
            SetCells(dataframe, ixs, Head(field_keys), record[Head(field_keys)]),
            ixs, record, Tail(field_keys))

\* upsert(): the conflicting record has been deleted (pddb.py:738-740); del is
\* the outcome of delete
upsert_retracted(del) ==
    IF del.err # NoErr THEN Raise(del.self, del.err) ELSE Raise(del.self, ErrConflict)

\* upsert(): the conflict test on the inserted record (pddb.py:735-743); ins is
\* the outcome of insert
upsert_inserted(ins, tname, where_not) ==
    IF ins.err # NoErr THEN ins
    ELSE IF \E k \in DOMAIN where_not : k \notin DOMAIN ins.ret
    THEN Raise(ins.self, KeyError)
    ELSE IF \E k \in DOMAIN where_not : ins.ret[k] \in Range(where_not[k])
    THEN IF _id_colname \notin DOMAIN ins.ret THEN Raise(ins.self, KeyError)
         ELSE upsert_retracted(
                 delete(ins.self, tname,
                        [k \in {_id_colname} |-> CondStr(ins.ret[_id_colname])], EmptyDict))
    ELSE Return(ins.self, ins.ret)

\* upsert(): no record matched, default to insert (pddb.py:723-743)
upsert_insert(self, tname, record, where, where_not, columns) ==
    upsert_inserted(
        insert(self, tname,
               Overlay(record, [k \in DOMAIN where |->
                                   IF Len(where[k]) > 0 THEN where[k][1] ELSE None]),
               columns),
        tname, where_not)

\* upsert(): the updated rows, rows or rows[columns] (pddb.py:760-763)
upsert_output(self, tname, ixs, columns) ==
    IF Len(columns) > 0
    THEN Selected(self, Project([self.db[tname] EXCEPT !.rows =
                                    SelectRows(self.db[tname].rows, ixs)], columns))
    ELSE Return(self, [self.db[tname] EXCEPT !.rows = SelectRows(self.db[tname].rows, ixs)])

\* upsert(): the fields of record are written into the rows labelled ixs and
\* the table is saved (pddb.py:752-757); upd is the outcome of _update_schema
upsert_set(upd, tname, record, ixs, columns) ==
    IF upd.err # NoErr THEN Raise(upd.self, upd.err)
    ELSE upsert_output(
            AutoSave([upd.self EXCEPT !.db =
                        Put(upd.self.db, tname,
                            upsert_set_fields(upd.self.db[tname], ixs, record,
                                              Keys(record)))]),
            tname, ixs, columns)

\* upsert(): existing records are updated (pddb.py:746-763); ret is the
\* DataFrame of the updated rows
upsert_update(self, tname, record, ixs, columns) ==
    upsert_set(_update_schema(self, tname, Keys(record)), tname, record, ixs, columns)

\* the result of upsert() with the branch the call took
Branch(r, path) == [self |-> r.self, err |-> r.err, ret |-> r.ret, path |-> path]

\* upsert(): the search was attempted (pddb.py:720-763); f is the outcome of find
upsert_found(self, tname, record, where, where_not, f, columns) ==
    IF f.err # NoErr THEN Branch(Raise(self, f.err), "find failed")
    ELSE IF Cardinality(Index(f.ret)) = 0
    THEN Branch(upsert_insert(self, tname, record, where, where_not, columns), "no match")
    ELSE Branch(upsert_update(self, tname, record, Index(f.ret), columns), "update")

\* upsert() without the test of pddb.py:717-718: the search is attempted even
\* when no predicate is given
upsert_always_searching(chk, w, wn, record, columns) ==
    IF chk.err # NoErr THEN Branch(chk, "rejected")
    ELSE IF w.err # NoErr THEN Branch(Raise(chk.self, w.err), "rejected")
    ELSE IF wn.err # NoErr THEN Branch(Raise(chk.self, wn.err), "rejected")
    ELSE IF _check_dict_type(record) # NoErr
    THEN Branch(Raise(chk.self, _check_dict_type(record)), "rejected")
    ELSE upsert_found(chk.self, chk.ret, record, w.conditions, wn.conditions,
                      find(chk.self, chk.ret, Checked(w.conditions),
                           Checked(wn.conditions), <<>>),
                      columns)

\* upsert(): what follows the argument checks, whose outcomes are chk, w and wn
upsert_checked(chk, w, wn, record, columns) ==
    IF chk.err # NoErr THEN Branch(chk, "rejected")
    ELSE IF w.err # NoErr THEN Branch(Raise(chk.self, w.err), "rejected")
    ELSE IF wn.err # NoErr THEN Branch(Raise(chk.self, wn.err), "rejected")
    ELSE IF _check_dict_type(record) # NoErr
    THEN Branch(Raise(chk.self, _check_dict_type(record)), "rejected")
    ELSE IF Cardinality(DOMAIN w.conditions) > 0 \/ Cardinality(DOMAIN wn.conditions) > 0
    THEN upsert_found(chk.self, chk.ret, record, w.conditions, wn.conditions,
                      find(chk.self, chk.ret, Checked(w.conditions),
                           Checked(wn.conditions), <<>>),
                      columns)
    ELSE Branch(insert(chk.self, chk.ret, record, columns), "no predicate")

\* upsert(tname, record, where, where_not, columns)
upsert(self, tname, record, where, where_not, columns) ==
    upsert_checked(_check_tname(self, tname, FALSE), _check_conditions(where),
                   _check_conditions(where_not), record, columns)

-----------------------------------------------------------------------------
(* Output shapes: the astype argument, given as None or as a lower-case name *)

\* astype=None, with self.astype left at its default None (pddb.py:780-781)
AsNone == "None"

\* _output(): astype_str (pddb.py:783-789)
astype_str(astype) == IF astype = AsNone THEN "nonetype" ELSE astype

\* formats that accept a Series and a DataFrame for either arity
supported_formats_of_both(single) == {"nonetype", "series", "dataframe", "str", "dict", "json"}

\* _output(): supported_formats (pddb.py:791-792)
supported_formats(single) ==
    IF single THEN {"nonetype", "series", "str", "dict", "json"}
    ELSE {"nonetype", "dataframe", "dict", "str", "json"}

\* a value returned to the caller, in the shape it has
Shaped(shape, value) == [shape |-> shape, value |-> value]

\* _output(): the conversion of a Series (pddb.py:806-813)
_output_series(self, records, single, astype) ==
    IF astype_str(astype) = "dict"
    THEN Return(self, IF single THEN Shaped("dict", records)
                      ELSE Shaped("list of dict", <<records>>))
    ELSE IF astype_str(astype) \in {"str", "json"}
    THEN Return(self, IF single THEN Shaped("json", records)
                      ELSE Shaped("json list", <<records>>))
    ELSE Raise(self, ErrOutputCast)

\* _output(): the conversion of a DataFrame (pddb.py:815-822)
_output_dataframe(self, records, astype) ==
    IF astype_str(astype) = "dict"
    THEN Return(self, Shaped("list of dict", [i \in 1..Len(records.rows) |-> records.rows[i].rec]))
    ELSE IF astype_str(astype) \in {"str", "json"}
    THEN Return(self, Shaped("json list", [i \in 1..Len(records.rows) |-> records.rows[i].rec]))
    ELSE Raise(self, ErrOutputCast)

\* _output(): records of type kind are returned as they are, or converted
\* (pddb.py:803-822)
_output_cast(self, records, kind, single, astype) ==
    IF astype = AsNone \/ astype_str(astype) = kind THEN Return(self, Shaped(kind, records))
    ELSE IF kind = "series" THEN _output_series(self, records, single, astype)
    ELSE _output_dataframe(self, records, astype)

\* _output(records, single, astype) applied to the outcome r of a method whose
\* records are of type kind (pddb.py:778-825)
_output(r, kind, single, astype) ==
    IF r.err # NoErr THEN r
    ELSE IF astype \notin supported_formats(single)
            /\ astype_str(astype) \notin supported_formats(single)
    THEN Raise(r.self, ErrOutputType)
    ELSE IF single /\ kind = "dataframe"
    THEN _output_cast(r.self, find_one_output(r).ret, "series", single, astype)
    ELSE _output_cast(r.self, r.ret, kind, single, astype)

\* find(..., astype)
find_as(self, tname, where, where_not, columns, astype) ==
    _output(find(self, tname, where, where_not, columns), "dataframe", FALSE, astype)

\* find_one(..., astype)
find_one_as(self, tname, where, where_not, columns, astype) ==
    _output(find(self, tname, where, where_not, columns), "dataframe", TRUE, astype)

\* insert(..., astype)
insert_as(self, tname, record, columns, astype) ==
    _output(insert(self, tname, record, columns), "series", TRUE, astype)

\* delete(..., astype)
delete_as(self, tname, where, where_not, astype) ==
    _output(delete(self, tname, where, where_not), "dataframe", FALSE, astype)

\* upsert(): the return statements of pddb.py:743, 763 and 770; r is the
\* outcome of what precedes them, the new record being a Series
upsert_returned(r, astype) ==
    _output(r, IF r.path = "update" THEN "dataframe" ELSE "series", FALSE, astype)

\* upsert(..., astype)
upsert_as(self, tname, record, where, where_not, columns, astype) ==
    upsert_returned(upsert(self, tname, record, where, where_not, columns), astype)

-----------------------------------------------------------------------------
(* Arguments callers pass *)

\* record arguments: empty, one field, or the id column
Records ==
    {EmptyDict,
     [k \in {"a"} |-> Str("v1")], [k \in {"a"} |-> Str("v2")],
     [k \in {"b"} |-> Str("v2")],
     [k \in {_id_colname} |-> Str("v1")]}

\* where arguments on the columns callers use: exact match and IN
ValueConds ==
    {[k \in {"a"} |-> CondStr(Str("v1"))],
     [k \in {"a"} |-> CondList(<<Str("v1"), Str("v2")>>)],
     [k \in {"b"} |-> CondStr(Str("v2"))]}

\* where arguments on the id column, for the ids generated so far
IdConds(n) == {[k \in {_id_colname} |-> CondStr(uuid4(i))] : i \in 1..n}

Wheres(n) == {EmptyDict} \cup ValueConds \cup IdConds(n)

\* where_not arguments
WhereNots == {EmptyDict, [k \in {"a"} |-> CondStr(Str("v1"))],
              [k \in {"b"} |-> CondStr(Str("v2"))]}

\* where / where_not / columns arguments: one predicate, or both, or a
\* predicate with a columns argument
Queries(n) ==
    {[where |-> w, where_not |-> EmptyDict, columns |-> <<>>] : w \in Wheres(n)} \cup
    {[where |-> EmptyDict, where_not |-> wn, columns |-> <<>>] : wn \in WhereNots} \cup
    {[where |-> [k \in {"a"} |-> CondList(<<Str("v1"), Str("v2")>>)],
      where_not |-> [k \in {"b"} |-> CondStr(Str("v2"))], columns |-> <<>>],
     [where |-> EmptyDict, where_not |-> [k \in {"b"} |-> CondStr(Str("v2"))],
      columns |-> <<"b">>],
     [where |-> [k \in {"a"} |-> CondStr(Str("v1"))], where_not |-> EmptyDict,
      columns |-> <<"b">>]}

\* the output of the row generator callers register
RowGen == [k \in {"b"} |-> Str("v2")]

\* load() arguments: by name, with a schema, with a row generator
LoadArgs ==
    {[table_names |-> Some(<<"t">>), table_schemas |-> Nothing, table_rowgens |-> Nothing],
     [table_names |-> Nothing, table_schemas |-> Some([k \in {"t"} |-> <<"a", "b">>]),
      table_rowgens |-> Nothing],
     [table_names |-> Nothing, table_schemas |-> Nothing,
      table_rowgens |-> Some([k \in {"t"} |-> RowGen])]}

\* constructor options: the defaults (dynamic schema, persistent, saving
\* after every mutation) and an in-memory database with fixed schemas
Configs ==
    {[dynamic_schema |-> TRUE, auto_load |-> TRUE, auto_save |-> TRUE, persistent |-> TRUE,
      deferred_save |-> FALSE, save_wait |-> SaveWait, save_queue_max |-> QueueMax],
     [dynamic_schema |-> FALSE, auto_load |-> FALSE, auto_save |-> FALSE, persistent |-> FALSE,
      deferred_save |-> FALSE, save_wait |-> SaveWait, save_queue_max |-> QueueMax]}

-----------------------------------------------------------------------------
(* The web API: bind_bottle_routes and the requests Bottle dispatches *)

ErrPermission == "ValueError: default_permission must be one of"    \* pddb.py:1005

\* the <table> wildcard of a route
AnyTable == "<table>"

\* all_actions (pddb.py:1052)
all_actions == {"find", "insert", "upsert", "delete", "drop"}

\* allowed_actions (pddb.py:1053)
allowed_actions(perm) ==
    IF perm = Str("r") THEN {"find"} ELSE IF perm = Str("w") THEN all_actions ELSE {}

\* the routes /pddb/<action>/<table> bound for all tables (pddb.py:1060-1064)
generic_routes(default_permissions) ==
    {[action |-> a, table |-> AnyTable] : a \in allowed_actions(default_permissions)}

\* the routes /pddb/<action>/<tname> bound for the tables listed
\* (pddb.py:1067-1071)
table_routes(table_permissions) ==
    UNION {{[action |-> a, table |-> tname] : a \in allowed_actions(table_permissions[tname])} :
              tname \in DOMAIN table_permissions}

\* the route /pddb/html/<table> of the explorer (pddb.py:1077-1089)
html_routes == {[action |-> "html", table |-> AnyTable]}

\* no application: bind_bottle_routes has not been called
NoApp == [routes |-> {}, default_permissions |-> None, table_permissions |-> EmptyDict]

\* bind_bottle_routes(default_permissions=..., table_permissions=...) on a
\* new Bottle(): ret is the application, with the arguments it was bound with
bind_bottle_routes(self, default_permissions, table_permissions) ==
    IF _check_dict_type(table_permissions) # NoErr
    THEN Raise(self, _check_dict_type(table_permissions))
    ELSE IF default_permissions \notin {None, Str("r"), Str("w")}
    THEN Raise(self, ErrPermission)
    ELSE Return(self, [routes |-> generic_routes(default_permissions) \cup
                                  table_routes(table_permissions) \cup html_routes,
                       default_permissions |-> default_permissions,
                       table_permissions |-> table_permissions])

\* Bottle finds a route for /pddb/<action>/<tname>: the route of that very
\* path, or else the route with the wildcard
Routed(routes, action, tname) ==
    \/ [action |-> action, table |-> tname] \in routes
    \/ [action |-> action, table |-> AnyTable] \in routes

\* route_method(table, action): the engine method is called with the
\* parameters of the request (pddb.py:1013-1031)
route_method(self, table, action, record, where) ==
    CASE action = "find" -> find(self, table, where, EmptyDict, <<>>)
      [] action = "insert" -> insert(self, table, record, <<>>)
      [] action = "upsert" -> upsert(self, table, record, where, EmptyDict, <<>>)
      [] action = "delete" -> delete(self, table, where, EmptyDict)
      [] action = "drop" -> drop(self, <<table>>)

\* table_html(table): self.find(table, astype='dict') (pddb.py:1078-1080)
table_html(self, table) == find(self, table, EmptyDict, EmptyDict, <<>>)

-----------------------------------------------------------------------------
(* Calling threads *)

\* the threads that call the engine: one that changes tables, one that reads
Callers == {"writer", "reader"}

\* threading.Lock() when no thread holds it
Unlocked == "unlocked"

\* a thread that is in no call
Idle == [op |-> "idle"]

-----------------------------------------------------------------------------
(* The state machine: one caller issuing one call at a time *)

Commit(self) ==
    /\ db' = self.db
    /\ schemas' = self.schemas
    /\ rowgens' = self.rowgens
    /\ files' = self.files
    /\ uuid_count' = self.uuid_count
    /\ _save_last' = self._save_last
    /\ _save_queue_len' = self._save_queue_len
    /\ _save_pending_flag' = self._save_pending_flag
    /\ threads' = self.threads

\* PandasDatabase(name, **kwargs) on an empty root directory
Init ==
    /\ db = EmptyDict
    /\ schemas = EmptyDict
    /\ rowgens = EmptyDict
    /\ files = EmptyDict
    /\ uuid_count = 0
    /\ cfg \in Configs
    /\ bottle_app = NoApp
    /\ last = [op |-> "init", err |-> NoErr, path |-> ""]
    /\ _save_last = 0
    /\ _save_queue_len = 0
    /\ _save_pending_flag = FALSE
    /\ threads = <<>>
    /\ clock = 1
    /\ _lock = Unlocked
    /\ calls = [t \in Callers |-> Idle]

Load ==
    \E a \in LoadArgs :
        \E r \in {load(Self, a.table_names, a.table_schemas, a.table_rowgens)} :
            /\ Commit(r.self)
            /\ last' = [op |-> "load", err |-> r.err, path |-> ""]
            /\ UNCHANGED <<cfg, bottle_app, clock, _lock, calls>>

Drop ==
    \E tname \in TNames :
        \E r \in {drop(Self, <<tname>>)} :
            /\ Commit(r.self)
            /\ last' = [op |-> "drop", err |-> r.err, path |-> ""]
            /\ UNCHANGED <<cfg, bottle_app, clock, _lock, calls>>

Save ==
    /\ \E r \in {save(Self)} : Commit(r)
    /\ UNCHANGED <<cfg, bottle_app, last, clock, _lock, calls>>

Find ==
    \E tname \in TNames, q \in Queries(uuid_count) :
        \E r \in {find(Self, tname, q.where, q.where_not, q.columns)} :
            /\ Commit(r.self)
            /\ UNCHANGED <<cfg, bottle_app, last, clock, _lock, calls>>

\* the calls the model issues: the table is not full, an id is left to draw,
\* and the columns argument names only fields the new record has (pandas
\* versions differ on row[columns] when a label is missing)
CanInsert(tname, record, where, columns) ==
    /\ uuid_count < MaxIds
    /\ lower(tname) \in DOMAIN db => Len(db[lower(tname)].rows) < MaxRows
    /\ Range(columns) \subseteq
          (DOMAIN record) \cup (DOMAIN where) \cup {_id_colname} \cup
          (IF lower(tname) \in DOMAIN rowgens THEN DOMAIN rowgens[lower(tname)] ELSE {})

Insert ==
    \E tname \in TNames, record \in Records, columns \in {<<>>, <<"b">>} :
        /\ CanInsert(tname, record, EmptyDict, columns)
        /\ \E r \in {insert(Self, tname, record, columns)} :
               /\ Commit(r.self)
               /\ last' = [op |-> "insert", err |-> r.err, path |-> ""]
               /\ UNCHANGED <<cfg, bottle_app, clock, _lock, calls>>

Upsert ==
    \E tname \in TNames, record \in Records, q \in Queries(uuid_count) :
        \E r \in {upsert(Self, tname, record, q.where, q.where_not, q.columns)} :
            /\ r.path \in {"no predicate", "no match"}
                  => CanInsert(tname, record, q.where, q.columns)
            /\ Commit(r.self)
            /\ last' = [op |-> "upsert", err |-> r.err, path |-> r.path]
            /\ UNCHANGED <<cfg, bottle_app, clock, _lock, calls>>

Delete ==
    \E tname \in TNames, q \in Queries(uuid_count) :
        /\ q.columns = <<>>
        /\ \E r \in {delete(Self, tname, q.where, q.where_not)} :
               /\ Commit(r.self)
               /\ last' = [op |-> "delete", err |-> r.err, path |-> ""]
               /\ UNCHANGED <<cfg, bottle_app, clock, _lock, calls>>

Next == Load \/ Drop \/ Save \/ Find \/ Insert \/ Upsert \/ Delete

Spec == Init /\ [][Next]_vars

\* upsert(tname, record, columns=...): a call that gives no predicate
UpsertRecord ==
    \E tname \in TNames, record \in Records, columns \in {<<>>, <<"b">>} :
        /\ CanInsert(tname, record, EmptyDict, columns)
        /\ \E r \in {upsert(Self, tname, record, EmptyDict, EmptyDict, columns)} :
               /\ Commit(r.self)
               /\ last' = [op |-> "upsert", err |-> r.err, path |-> r.path]
               /\ UNCHANGED <<cfg, bottle_app, clock, _lock, calls>>

\* delete(tname, where={id: i}): a call that names one generated id
DeleteById ==
    \E tname \in TNames, where \in IdConds(uuid_count) :
        \E r \in {delete(Self, tname, where, EmptyDict)} :
            /\ Commit(r.self)
            /\ last' = [op |-> "delete", err |-> r.err, path |-> ""]
            /\ UNCHANGED <<cfg, bottle_app, clock, _lock, calls>>

\* a caller that creates tables, adds records without predicates and deletes
\* records by id
NextRecords == Load \/ Insert \/ UpsertRecord \/ DeleteById

SpecRecords == Init /\ [][NextRecords]_vars

\* load() arguments: by name, and with a schema that leaves out the id
\* column, lists it, or has a column name the pattern rejects
SchemaArgs ==
    {[table_names |-> Some(<<"t">>), table_schemas |-> Nothing, table_rowgens |-> Nothing],
     [table_names |-> Nothing, table_schemas |-> Some([k \in {"t"} |-> <<"a">>]),
      table_rowgens |-> Nothing],
     [table_names |-> Nothing, table_schemas |-> Some([k \in {"t"} |-> <<_id_colname, "a">>]),
      table_rowgens |-> Nothing],
     [table_names |-> Nothing, table_schemas |-> Some([k \in {"t"} |-> <<"c*">>]),
      table_rowgens |-> Nothing]}

\* record arguments that name columns: known ones, new ones, and one the
\* pattern rejects
ColumnRecords ==
    {EmptyDict, [k \in {"a"} |-> Str("v1")], [k \in {"c*"} |-> Str("v1")]}

\* a where argument with the null marker
NullQuery == [where |-> [k \in {"a"} |-> CondNone], where_not |-> EmptyDict, columns |-> <<>>]

\* load(...): path tells whether the table came from its backing file
LoadSchemas ==
    \E a \in SchemaArgs :
        \E r \in {load(Self, a.table_names, a.table_schemas, a.table_rowgens)} :
            /\ Commit(r.self)
            /\ last' = [op |-> "load", err |-> r.err,
                        path |-> IF "t" \in DOMAIN files /\ auto_load
                                 THEN "from file" ELSE "created"]
            /\ UNCHANGED <<cfg, bottle_app, clock, _lock, calls>>

\* insert(tname, record) with the records that name columns
InsertColumns ==
    \E tname \in TNames, record \in ColumnRecords :
        /\ CanInsert(tname, record, EmptyDict, <<>>)
        /\ \E r \in {insert(Self, tname, record, <<>>)} :
               /\ Commit(r.self)
               /\ last' = [op |-> "insert", err |-> r.err, path |-> ""]
               /\ UNCHANGED <<cfg, bottle_app, clock, _lock, calls>>

\* upsert(tname, record, where={id: i}): an update of the record with id i
UpsertColumns ==
    \E tname \in TNames, record \in ColumnRecords, where \in IdConds(uuid_count) :
        \E r \in {upsert(Self, tname, record, where, EmptyDict, <<>>)} :
            /\ r.path \in {"no predicate", "no match"}
                  => CanInsert(tname, record, where, <<>>)
            /\ Commit(r.self)
            /\ last' = [op |-> "upsert", err |-> r.err, path |-> r.path]
            /\ UNCHANGED <<cfg, bottle_app, clock, _lock, calls>>

\* find(...) and find_one(...): path tells whether the table existed
FindRecorded ==
    \E tname \in TNames, q \in Queries(uuid_count) \cup {NullQuery}, one \in BOOLEAN :
        \E r \in {IF one THEN find_one(Self, tname, q.where, q.where_not, q.columns)
                          ELSE find(Self, tname, q.where, q.where_not, q.columns)} :
            /\ Commit(r.self)
            /\ last' = [op |-> IF one THEN "find_one" ELSE "find", err |-> r.err,
                        path |-> IF lower(tname) \in DOMAIN db THEN "table" ELSE "no table"]
            /\ UNCHANGED <<cfg, bottle_app, clock, _lock, calls>>

\* a caller that declares schemas, lets them evolve, reloads and drops tables
NextSchemas == LoadSchemas \/ Drop \/ InsertColumns \/ UpsertColumns

SpecSchemas == Init /\ [][NextSchemas]_vars

\* a caller that creates, fills and drops tables, and reads them
NextReads == Load \/ Drop \/ Insert \/ DeleteById \/ FindRecorded

SpecReads == Init /\ [][NextReads]_vars

-----------------------------------------------------------------------------
(* The state machine of a caller that works on two tables and writes their
   names in either case *)

\* the table names this caller uses
TableNames == {"t", "T", "u"}

\* load() arguments: a table by name, with a schema, and a row generator
\* registered under the upper-case name
TableLoadArgs ==
    {[table_names |-> Some(<<n>>), table_schemas |-> Nothing, table_rowgens |-> Nothing] :
        n \in {"t", "u"}} \cup
    {[table_names |-> Nothing, table_schemas |-> Some([k \in {n} |-> <<"a">>]),
      table_rowgens |-> Nothing] : n \in {"T", "u"}} \cup
    {[table_names |-> Nothing, table_schemas |-> Nothing,
      table_rowgens |-> Some([k \in {"T"} |-> RowGen])]}

LoadNamed ==
    \E a \in TableLoadArgs :
        \E r \in {load(Self, a.table_names, a.table_schemas, a.table_rowgens)} :
            /\ Commit(r.self)
            /\ last' = [op |-> "load", err |-> r.err, path |-> ""]
            /\ UNCHANGED <<cfg, bottle_app, clock, _lock, calls>>

DropNamed ==
    \E tname \in TableNames :
        \E r \in {drop(Self, <<tname>>)} :
            /\ Commit(r.self)
            /\ last' = [op |-> "drop", err |-> r.err, path |-> tname]
            /\ UNCHANGED <<cfg, bottle_app, clock, _lock, calls>>

InsertNamed ==
    \E tname \in TableNames, record \in {[k \in {"a"} |-> Str("v1")]} :
        /\ CanInsert(tname, record, EmptyDict, <<>>)
        /\ \E r \in {insert(Self, tname, record, <<>>)} :
               /\ Commit(r.self)
               /\ last' = [op |-> "insert", err |-> r.err, path |-> tname]
               /\ UNCHANGED <<cfg, bottle_app, clock, _lock, calls>>

DeleteNamed ==
    \E tname \in TableNames, where \in IdConds(uuid_count) :
        \E r \in {delete(Self, tname, where, EmptyDict)} :
            /\ Commit(r.self)
            /\ last' = [op |-> "delete", err |-> r.err, path |-> tname]
            /\ UNCHANGED <<cfg, bottle_app, clock, _lock, calls>>

NextTables == LoadNamed \/ DropNamed \/ InsertNamed \/ DeleteNamed

SpecTables == Init /\ [][NextTables]_vars

-----------------------------------------------------------------------------
(* The state machine of a caller that registers row generators *)

\* the output of a row generator that supplies an id of its own
RowGenWithId == [k \in {"b", _id_colname} |-> IF k = "b" THEN Str("v2") ELSE Str("v1")]

\* load() arguments: a row generator alone, or with the schema of its table
RowgenLoadArgs ==
    {[table_names |-> Nothing, table_schemas |-> Nothing,
      table_rowgens |-> Some([k \in {"t"} |-> g])] : g \in {RowGen, RowGenWithId}} \cup
    {[table_names |-> Nothing, table_schemas |-> Some([k \in {"t"} |-> <<"a", "b">>]),
      table_rowgens |-> Some([k \in {"t"} |-> RowGen])]}

\* record arguments: no field, a field the generator does not supply, the
\* field it supplies with another value, an id
RowgenRecords ==
    {EmptyDict, [k \in {"a"} |-> Str("v1")], [k \in {"b"} |-> Str("v1")],
     [k \in {_id_colname} |-> Str("v1")]}

LoadRowgen ==
    \E a \in RowgenLoadArgs :
        \E r \in {load(Self, a.table_names, a.table_schemas, a.table_rowgens)} :
            /\ Commit(r.self)
            /\ last' = [op |-> "load", err |-> r.err, path |-> ""]
            /\ UNCHANGED <<cfg, bottle_app, clock, _lock, calls>>

InsertRowgen ==
    \E tname \in TNames, record \in RowgenRecords :
        /\ CanInsert(tname, record, EmptyDict, <<>>)
        /\ \E r \in {insert(Self, tname, record, <<>>)} :
               /\ Commit(r.self)
               /\ last' = [op |-> "insert", err |-> r.err, path |-> ""]
               /\ UNCHANGED <<cfg, bottle_app, clock, _lock, calls>>

NextRowgens == LoadRowgen \/ InsertRowgen \/ DeleteById

SpecRowgens == Init /\ [][NextRowgens]_vars

-----------------------------------------------------------------------------
(* The state machine of a caller that asks for output shapes *)

\* astype arguments: None, the names _output knows, and another one
Shapes == {AsNone, "series", "dataframe", "dict", "str", "json", "list"}

\* the astype arguments this caller passes
CallerShapes == {AsNone, "series", "dataframe"}

\* record arguments of this caller
ShapeRecords == {[k \in {"a"} |-> Str("v1")]}

\* where arguments of this caller: no predicate, or a generated id
ShapeWheres(n) == {EmptyDict} \cup IdConds(n)

InsertAs ==
    \E tname \in TNames, record \in ShapeRecords, astype \in CallerShapes :
        /\ CanInsert(tname, record, EmptyDict, <<>>)
        /\ \E r \in {insert_as(Self, tname, record, <<>>, astype)} :
               /\ Commit(r.self)
               /\ last' = [op |-> "insert", err |-> r.err, path |-> astype]
               /\ UNCHANGED <<cfg, bottle_app, clock, _lock, calls>>

UpsertAs ==
    \E tname \in TNames, record \in ShapeRecords, where \in IdConds(uuid_count),
       astype \in CallerShapes :
        \E r \in {upsert_as(Self, tname, record, where, EmptyDict, <<>>, astype)} :
            /\ lower(tname) \in DOMAIN db
            /\ find(Self, tname, where, EmptyDict, <<>>).err = NoErr
            /\ Len(find(Self, tname, where, EmptyDict, <<>>).ret.rows) > 0
            /\ Commit(r.self)
            /\ last' = [op |-> "upsert", err |-> r.err, path |-> astype]
            /\ UNCHANGED <<cfg, bottle_app, clock, _lock, calls>>

DeleteAs ==
    \E tname \in TNames, where \in IdConds(uuid_count), astype \in CallerShapes :
        \E r \in {delete_as(Self, tname, where, EmptyDict, astype)} :
            /\ Commit(r.self)
            /\ last' = [op |-> "delete", err |-> r.err, path |-> astype]
            /\ UNCHANGED <<cfg, bottle_app, clock, _lock, calls>>

FindAs ==
    \E tname \in TNames, where \in ShapeWheres(uuid_count), astype \in CallerShapes,
       single \in BOOLEAN :
        \E r \in {IF single THEN find_one_as(Self, tname, where, EmptyDict, <<>>, astype)
                             ELSE find_as(Self, tname, where, EmptyDict, <<>>, astype)} :
            /\ Commit(r.self)
            /\ last' = [op |-> IF single THEN "find_one" ELSE "find", err |-> r.err,
                        path |-> astype]
            /\ UNCHANGED <<cfg, bottle_app, clock, _lock, calls>>

NextShapes == Load \/ InsertAs \/ UpsertAs \/ DeleteAs \/ FindAs

SpecShapes == Init /\ [][NextShapes]_vars

-----------------------------------------------------------------------------
(* The state machine of an HTTP client of the routes that were bound *)

\* default_permissions arguments: None, 'r', 'w', and another string
DefaultPermissions == {None, Str("r"), Str("w"), Str("x")}

\* table_permissions arguments: none, the table read-only, the table writable
TablePermissions == {EmptyDict, [k \in {"t"} |-> Str("r")], [k \in {"t"} |-> Str("w")]}

BindBottleRoutes ==
    \E default_permissions \in DefaultPermissions, table_permissions \in TablePermissions :
        \E r \in {bind_bottle_routes(Self, default_permissions, table_permissions)} :
            /\ bottle_app' = IF r.err = NoErr THEN r.ret ELSE bottle_app
            /\ last' = [op |-> "bind_bottle_routes", err |-> r.err, path |-> ""]
            /\ UNCHANGED <<db, schemas, rowgens, files, uuid_count, cfg, _save_last,
                           _save_queue_len, _save_pending_flag, threads, clock, _lock, calls>>

\* GET or POST /pddb/<action>/<tname>
Request ==
    \E action \in all_actions, tname \in TNames, record \in {[k \in {"a"} |-> Str("v1")]},
       where \in {EmptyDict} \cup IdConds(uuid_count) :
        /\ Routed(bottle_app.routes, action, tname)
        /\ action \in {"insert", "upsert"} => CanInsert(tname, record, where, <<>>)
        /\ \E r \in {route_method(Self, tname, action, record, where)} :
               /\ Commit(r.self)
               /\ last' = [op |-> action, err |-> r.err, path |-> "route"]
               /\ UNCHANGED <<cfg, bottle_app, clock, _lock, calls>>

\* GET /pddb/html/<tname>
RequestHtml ==
    \E tname \in TNames :
        /\ Routed(bottle_app.routes, "html", tname)
        /\ \E r \in {table_html(Self, tname)} :
               /\ Commit(r.self)
               /\ last' = [op |-> "find", err |-> r.err, path |-> "html"]
               /\ UNCHANGED <<cfg, bottle_app, clock, _lock, calls>>

NextRoutes == Load \/ BindBottleRoutes \/ Request \/ RequestHtml

SpecRoutes == Init /\ [][NextRoutes]_vars

-----------------------------------------------------------------------------
(* The state machine of two calling threads: the writer's call advances one
   statement at a time, and the reader's find may run between any two of them *)

\* record arguments of the writer: one field, two fields
ThreadRecords == {[k \in {"a"} |-> Str("v1")], [k \in {"a", "b"} |-> Str("v2")]}

\* where / where_not arguments of the reader
ReaderQueries ==
    {[where |-> EmptyDict, where_not |-> EmptyDict, columns |-> <<>>],
     [where |-> [k \in {"a"} |-> CondStr(Str("v2"))], where_not |-> EmptyDict, columns |-> <<>>]}

\* the frame of a call that has just been entered: its position pc, its
\* local variables, and the engine state it was issued in
NewCall(op, pc, tname) ==
    [op |-> op, pc |-> pc, tname |-> tname, args |-> EmptyDict, record |-> EmptyDict,
     where |-> EmptyDict, ixs |-> {}, field_keys |-> <<>>, load_args |-> <<>>,
     err |-> NoErr, pre |-> Self]

\* the writer's frame
W == calls["writer"]

\* the writer may enter a call, or go on in the call it is in.  The return of
\* find touches the reader's frame only, so it is taken before the writer's
\* next statement.
Ready == W = Idle /\ calls["reader"] = Idle

Running == W # Idle /\ calls["reader"] = Idle

\* the writer moves to position pc
Goto(pc) == calls' = [calls EXCEPT !["writer"].pc = pc]

\* the writer's call raises e: the exception leaves the with block, which
\* releases the lock, before it leaves the call
Throw(e) == calls' = [calls EXCEPT !["writer"].pc = "release", !["writer"].err = e]

\* the writer's call ends
Finish(err) ==
    /\ calls' = [calls EXCEPT !["writer"] = Idle]
    /\ last' = [op |-> W.op, err |-> err, path |-> ""]

\* insert(tname, record) up to the with statement (pddb.py:633-648)
InsertCall ==
    \E tname \in TNames, record \in ThreadRecords \cup {EmptyDict} :
        /\ Ready
        /\ lower(tname) \in DOMAIN db
        /\ CanInsert(tname, record, EmptyDict, <<>>)
        /\ uuid_count' = uuid_count + 1
        /\ calls' = [calls EXCEPT !["writer"] =
                        [NewCall("insert", "acquire", lower(tname)) EXCEPT
                            !.args = record,
                            !.record = insert_record_new(
                                           [Self EXCEPT !.uuid_count = @ + 1],
                                           lower(tname), record)]]
        /\ UNCHANGED <<db, schemas, rowgens, files, cfg, bottle_app, last, _save_last, _save_queue_len,
                       _save_pending_flag, threads, clock, _lock>>

\* upsert(tname, record, where) up to the with statement, when the search
\* finds records to update (pddb.py:711-748)
UpsertCall ==
    \E tname \in TNames, record \in ThreadRecords, where \in IdConds(uuid_count) :
        \E f \in {find(Self, tname, where, EmptyDict, <<>>)} :
            /\ Ready
            /\ lower(tname) \in DOMAIN db
            /\ f.err = NoErr
            /\ Len(f.ret.rows) > 0
            /\ calls' = [calls EXCEPT !["writer"] =
                            [NewCall("upsert", "acquire", lower(tname)) EXCEPT
                                !.args = record, !.record = record, !.where = where,
                                !.ixs = Index(f.ret), !.field_keys = Keys(record)]]
            /\ UNCHANGED <<db, schemas, rowgens, files, uuid_count, cfg, bottle_app, last, _save_last,
                           _save_queue_len, _save_pending_flag, threads, clock, _lock>>

\* delete(tname, where) up to its search (pddb.py:558-561)
DeleteCall ==
    \E tname \in TNames, where \in IdConds(uuid_count) :
        /\ Ready
        /\ lower(tname) \in DOMAIN db
        /\ calls' = [calls EXCEPT !["writer"] =
                        [NewCall("delete", "find", lower(tname)) EXCEPT !.where = where]]
        /\ UNCHANGED <<db, schemas, rowgens, files, uuid_count, cfg, bottle_app, last, _save_last,
                       _save_queue_len, _save_pending_flag, threads, clock, _lock>>

\* load(...) up to its first loop (pddb.py:183-210): the arguments are checked
LoadCall ==
    \E a \in LoadArgs :
        \E chk \in {load_schemas(a.table_schemas)} :
            /\ Ready
            /\ IF chk.err # NoErr
               THEN /\ last' = [op |-> "load", err |-> chk.err, path |-> ""]
                    /\ UNCHANGED calls
               ELSE IF chk.table_schemas = Nothing /\ ~dynamic_schema
               THEN /\ last' = [op |-> "load", err |-> ErrSchemasRequired, path |-> ""]
                    /\ UNCHANGED calls
               ELSE /\ calls' = [calls EXCEPT !["writer"] =
                                    [NewCall("load", "register", "") EXCEPT
                                        !.load_args =
                                            [table_names |->
                                                load_names(a.table_names, chk.table_schemas,
                                                           load_rowgens(a.table_rowgens)),
                                             table_schemas |-> chk.table_schemas,
                                             table_rowgens |-> load_rowgens(a.table_rowgens)]]]
                    /\ UNCHANGED last
            /\ UNCHANGED <<db, schemas, rowgens, files, uuid_count, cfg, bottle_app, _save_last,
                           _save_queue_len, _save_pending_flag, threads, clock, _lock>>

\* drop(tname) up to the with statement (pddb.py:264-267)
DropCall ==
    \E tname \in TNames :
        \E chk \in {_check_tname(Self, lower(tname), TRUE)} :
            /\ Ready
            /\ IF chk.err # NoErr
               THEN /\ last' = [op |-> "drop", err |-> chk.err, path |-> ""]
                    /\ UNCHANGED calls
               ELSE /\ calls' = [calls EXCEPT !["writer"] = NewCall("drop", "acquire", chk.ret)]
                    /\ UNCHANGED last
            /\ UNCHANGED <<db, schemas, rowgens, files, uuid_count, cfg, bottle_app, _save_last,
                           _save_queue_len, _save_pending_flag, threads, clock, _lock>>

\* "with self._lock:" is entered (pddb.py:219, 270, 650, 750)
Acquire ==
    /\ Running
    /\ W.pc = "acquire"
    /\ _lock = Unlocked
    /\ _lock' = "writer"
    /\ Goto("locked")
    /\ UNCHANGED <<db, schemas, rowgens, files, uuid_count, cfg, bottle_app, last, _save_last,
                   _save_queue_len, _save_pending_flag, threads, clock>>

\* self._update_schema(tname, ...) in insert and upsert (pddb.py:652, 751)
UpdateSchema ==
    /\ Running
    /\ W.op \in {"insert", "upsert"}
    /\ W.pc = "locked"
    /\ \E r \in {_update_schema(Self, W.tname, Keys(W.record))} :
           /\ Commit(r.self)
           /\ IF r.err # NoErr THEN Throw(r.err)
              ELSE IF W.op = "upsert" /\ W.field_keys = <<>> THEN Goto("release")
              ELSE Goto("store")
    /\ UNCHANGED <<cfg, bottle_app, last, clock, _lock>>

\* insert: self._db[tname].loc[len(self._db[tname])] = row (pddb.py:654-655)
InsertRow ==
    /\ Running
    /\ W.op = "insert"
    /\ W.pc = "store"
    /\ db' = Put(db, W.tname, SetRow(db[W.tname], Len(db[W.tname].rows), W.record))
    /\ Goto("release")
    /\ UNCHANGED <<schemas, rowgens, files, uuid_count, cfg, bottle_app, last, _save_last,
                   _save_queue_len, _save_pending_flag, threads, clock, _lock>>

\* upsert: one turn of the loop self._db[tname].loc[ixs, field_key] = field_val
\* (pddb.py:752-753)
UpsertField ==
    /\ Running
    /\ W.op = "upsert"
    /\ W.pc = "store"
    /\ db' = Put(db, W.tname,
                 SetCells(db[W.tname], W.ixs, Head(W.field_keys), W.record[Head(W.field_keys)]))
    /\ calls' = [calls EXCEPT !["writer"].field_keys = Tail(@),
                              !["writer"].pc = IF Len(W.field_keys) = 1 THEN "release" ELSE "store"]
    /\ UNCHANGED <<schemas, rowgens, files, uuid_count, cfg, bottle_app, last, _save_last,
                   _save_queue_len, _save_pending_flag, threads, clock, _lock>>

\* delete: delrows = self.find(...) (pddb.py:564)
DeleteFind ==
    /\ Running
    /\ W.op = "delete"
    /\ W.pc = "find"
    /\ \E f \in {find(Self, W.tname, W.where, EmptyDict, <<>>)} :
           IF f.err # NoErr THEN Finish(f.err)
           ELSE /\ calls' = [calls EXCEPT !["writer"].ixs = Index(f.ret),
                                          !["writer"].pc = "store"]
                /\ UNCHANGED last
    /\ UNCHANGED <<db, schemas, rowgens, files, uuid_count, cfg, bottle_app, _save_last,
                   _save_queue_len, _save_pending_flag, threads, clock, _lock>>

\* delete: the rows found are removed and the frame is put back
\* (pddb.py:567-569); no with statement surrounds these lines
DeleteRows ==
    /\ Running
    /\ W.op = "delete"
    /\ W.pc = "store"
    /\ db' = Put(db, W.tname,
                 [db[W.tname] EXCEPT !.rows =
                     SelectRows(db[W.tname].rows, Index(db[W.tname]) \ W.ixs)])
    /\ Goto("save")
    /\ UNCHANGED <<schemas, rowgens, files, uuid_count, cfg, bottle_app, last, _save_last,
                   _save_queue_len, _save_pending_flag, threads, clock, _lock>>

\* load: the schemas and row generators are registered (pddb.py:213-217),
\* before the with statement
LoadRegister ==
    /\ Running
    /\ W.op = "load"
    /\ W.pc = "register"
    /\ Commit(load_register(Self, W.load_args.table_names, W.load_args.table_schemas,
                            W.load_args.table_rowgens))
    /\ Goto("acquire")
    /\ UNCHANGED <<cfg, bottle_app, last, clock, _lock>>

\* load: the tables are read or created (pddb.py:220-253)
LoadTables ==
    /\ Running
    /\ W.op = "load"
    /\ W.pc = "locked"
    /\ \E r \in {load_tables(Self, W.load_args.table_names, W.load_args.table_schemas)} :
           /\ Commit(r.self)
           /\ IF r.err # NoErr THEN Throw(r.err) ELSE Goto("release")
    /\ UNCHANGED <<cfg, bottle_app, last, clock, _lock>>

\* drop: the table and its file are removed (pddb.py:271-279)
DropTable ==
    /\ Running
    /\ W.op = "drop"
    /\ W.pc = "locked"
    /\ db' = Del(db, W.tname)
    /\ files' = IF persistent THEN Del(files, W.tname) ELSE files
    /\ Goto("release")
    /\ UNCHANGED <<schemas, rowgens, uuid_count, cfg, bottle_app, last, _save_last,
                   _save_queue_len, _save_pending_flag, threads, clock, _lock>>

\* the with block is left: the lock is released; load and drop then return,
\* an exception leaves the call, insert and upsert go on to save
Release ==
    /\ Running
    /\ W.pc = "release"
    /\ _lock = "writer"
    /\ _lock' = Unlocked
    /\ IF W.err # NoErr THEN Finish(W.err)
       ELSE IF W.op \in {"load", "drop"} THEN Finish(NoErr)
       ELSE Goto("save") /\ UNCHANGED last
    /\ UNCHANGED <<db, schemas, rowgens, files, uuid_count, cfg, bottle_app, _save_last,
                   _save_queue_len, _save_pending_flag, threads, clock>>

\* "if self.auto_save: self.save()" and the return (pddb.py:573-578, 657-664,
\* 755-763); _save_now takes the lock while it writes
SaveReturn ==
    /\ Running
    /\ W.pc = "save"
    /\ _lock = Unlocked
    /\ Commit(AutoSave(Self))
    /\ Finish(NoErr)
    /\ UNCHANGED <<cfg, bottle_app, clock, _lock>>

\* find(tname, where, where_not) by the reader thread: no lock is taken; the
\* frame keeps the result and the call the writer was in
FindCall ==
    \E tname \in TNames, q \in ReaderQueries :
        \E f \in {find(Self, tname, q.where, q.where_not, q.columns)} :
            /\ calls["reader"] = Idle
            /\ calls' = [calls EXCEPT !["reader"] =
                            [op |-> "found", tname |-> tname, where |-> q.where,
                             where_not |-> q.where_not, err |-> f.err, ret |-> f.ret,
                             during |-> W]]
            /\ UNCHANGED <<db, schemas, rowgens, files, uuid_count, cfg, bottle_app, last, _save_last,
                           _save_queue_len, _save_pending_flag, threads, clock, _lock>>

\* find returns to the reader's caller
FindReturn ==
    /\ calls["reader"] # Idle
    /\ calls' = [calls EXCEPT !["reader"] = Idle]
    /\ UNCHANGED <<db, schemas, rowgens, files, uuid_count, cfg, bottle_app, last, _save_last,
                   _save_queue_len, _save_pending_flag, threads, clock, _lock>>

NextThreads ==
    \/ InsertCall \/ UpsertCall \/ DeleteCall \/ LoadCall \/ DropCall
    \/ Acquire \/ UpdateSchema \/ InsertRow \/ UpsertField \/ DeleteFind \/ DeleteRows
    \/ LoadRegister \/ LoadTables \/ DropTable \/ Release \/ SaveReturn
    \/ FindCall \/ FindReturn

SpecThreads == Init /\ [][NextThreads]_vars

-----------------------------------------------------------------------------
(* The state machine of two threads that both change tables: every call
   advances one statement at a time, and the statements of the two threads
   interleave in any order the lock allows *)

\* the threads
Mutators == {"first", "second"}

\* PandasDatabase(name): the defaults, every mutation writes the files at once
ConfigMutators ==
    [dynamic_schema |-> TRUE, auto_load |-> TRUE, auto_save |-> TRUE, persistent |-> TRUE,
     deferred_save |-> FALSE, save_wait |-> SaveWait, save_queue_max |-> QueueMax]

InitMutators ==
    /\ db = EmptyDict
    /\ schemas = EmptyDict
    /\ rowgens = EmptyDict
    /\ files = EmptyDict
    /\ uuid_count = 0
    /\ cfg = ConfigMutators
    /\ bottle_app = NoApp
    /\ last = [op |-> "init", err |-> NoErr, path |-> ""]
    /\ _save_last = 0
    /\ _save_queue_len = 0
    /\ _save_pending_flag = FALSE
    /\ threads = <<>>
    /\ clock = 1
    /\ _lock = Unlocked
    /\ calls = [t \in Mutators |-> Idle]

\* the frame of a call that has just been entered: its position pc and its
\* local variables (frame is delete's local variable dataframe)
NewFrame(op, pc, tname) ==
    [op |-> op, pc |-> pc, tname |-> tname, args |-> EmptyDict, record |-> EmptyDict,
     where |-> EmptyDict, where_not |-> EmptyDict, ixs |-> {}, frame |-> DataFrame(<<>>),
     err |-> NoErr]

\* the positions just before a with statement, and the position inside it
AcquirePcs == {"load_acquire", "acquire", "save_acquire", "folder_acquire"}

Inside(pc) ==
    CASE pc = "load_acquire" -> "load_locked"
      [] pc = "acquire" -> "locked"
      [] pc = "save_acquire" -> "save_locked"
      [] pc = "folder_acquire" -> "folder_locked"

\* the positions inside a with statement, and the positions at its end
LockedPcs == {"load_locked", "locked", "store", "save_locked", "folder_locked"}

ReleasePcs == {"load_release", "release", "save_release", "folder_release"}

\* threading.Lock.acquire() on a lock in state l returns at once
acquire_blocks_never(l) == TRUE

\* threading.Lock.acquire() on a lock in state l returns when no thread
\* holds it: the lock is not reentrant
CanAcquire(l) == l = Unlocked

\* where insert goes once the record is stored with the call to save()
\* placed inside the with block
after_store_saving(op) == "save_acquire"

\* where insert, upsert and drop go once the statements under the lock are
\* done: to the end of the with block (pddb.py:655, 753, 279)
after_store(op) == "release"

\* where a call goes once _check_tname has returned (pddb.py:634-637,
\* 711-720, 558-564, 267-270)
after_check(op) ==
    CASE op = "insert" -> "prepare"
      [] op \in {"upsert", "delete"} -> "find"
      [] op \in {"drop", "drop_all"} -> "acquire"

\* where a call goes once the with block is left without an exception
\* (pddb.py:253, 279, 284, 657-659, 755-757, 334)
after_release(c) ==
    CASE c.pc = "load_release" -> IF c.op = "load" THEN "return" ELSE after_check(c.op)
      [] c.pc = "release" -> IF c.op = "drop" THEN "return"
                             ELSE IF c.op = "drop_all"
                             THEN IF persistent THEN "folder_acquire" ELSE "return"
                             ELSE IF auto_save THEN "save_acquire" ELSE "return"
      [] c.pc = "save_release" -> "return"
      [] c.pc = "folder_release" -> "return"

\* the calls that may still draw an id
InsertsAhead ==
    Cardinality({t \in Mutators :
                    /\ calls[t] # Idle
                    /\ calls[t].op \in {"insert", "upsert"}
                    /\ calls[t].pc \in {"check", "load_acquire", "load_locked", "load_release",
                                        "find", "prepare"}})

\* the frame f once the locals of the statements before the with block, or
\* of delete's read and write-back, are no longer read
Forget(f) == [f EXCEPT !.args = EmptyDict, !.ixs = {}, !.frame = DataFrame(<<>>)]

\* thread t moves on with frame f, or leaves its call
Move(t, f) == calls' = [calls EXCEPT ![t] = IF f.pc = "return" THEN Idle ELSE f]

\* thread t raises e: the exception leaves the with block the thread is in,
\* which releases the lock, and then the call
Raised(t, e) ==
    IF calls[t].pc \in LockedPcs
    THEN [calls[t] EXCEPT !.pc = CASE calls[t].pc = "load_locked" -> "load_release"
                                   [] calls[t].pc = "save_locked" -> "save_release"
                                   [] calls[t].pc = "folder_locked" -> "folder_release"
                                   [] OTHER -> "release",
                          !.err = e]
    ELSE [calls[t] EXCEPT !.pc = "return", !.err = e]

\* insert(tname, record) is entered
CallInsertM ==
    \E t \in Mutators, tname \in TNames, record \in {[k \in {"a"} |-> Str("v1")]} :
        /\ calls[t] = Idle
        /\ uuid_count + InsertsAhead < MaxRows
        /\ Move(t, [NewFrame("insert", "check", lower(tname)) EXCEPT !.args = record])
        /\ UNCHANGED <<db, schemas, rowgens, files, uuid_count, cfg, bottle_app, last, _save_last,
                       _save_queue_len, _save_pending_flag, threads, clock, _lock>>

\* upsert(tname, record, where_not=...) is entered (pddb.py:711-715): the
\* records that do not have the value yet are to get it
CallUpsertM ==
    \E t \in Mutators, tname \in TNames, record \in {[k \in {"a"} |-> Str("v2")]},
       q \in {[where |-> EmptyDict, where_not |-> [k \in {"a"} |-> CondStr(Str("v2"))]]} :
        /\ calls[t] = Idle
        /\ uuid_count + InsertsAhead < MaxRows
        /\ Move(t, [NewFrame("upsert", "check", lower(tname)) EXCEPT
                        !.args = record, !.record = record,
                        !.where = q.where, !.where_not = q.where_not])
        /\ UNCHANGED <<db, schemas, rowgens, files, uuid_count, cfg, bottle_app, last, _save_last,
                       _save_queue_len, _save_pending_flag, threads, clock, _lock>>

\* delete(tname, where) is entered (pddb.py:558-561)
CallDeleteM ==
    \E t \in Mutators, tname \in TNames, where \in IdConds(uuid_count) :
        /\ calls[t] = Idle
        /\ Move(t, [NewFrame("delete", "check", lower(tname)) EXCEPT !.where = where])
        /\ UNCHANGED <<db, schemas, rowgens, files, uuid_count, cfg, bottle_app, last, _save_last,
                       _save_queue_len, _save_pending_flag, threads, clock, _lock>>

\* load(tname) is entered, up to the with statement (pddb.py:183-217): with a
\* name only, nothing is registered
CallLoadM ==
    \E t \in Mutators, tname \in TNames :
        /\ calls[t] = Idle
        /\ Move(t, NewFrame("load", "load_acquire", lower(tname)))
        /\ UNCHANGED <<db, schemas, rowgens, files, uuid_count, cfg, bottle_app, last, _save_last,
                       _save_queue_len, _save_pending_flag, threads, clock, _lock>>

\* drop(tname) is entered (pddb.py:264-266), or drop_all(), which drops the
\* tables get_table_names() lists and then takes the lock for the folder
\* (pddb.py:283-285)
CallDropM ==
    \E t \in Mutators, tname \in TNames, op \in {"drop", "drop_all"} :
        /\ calls[t] = Idle
        /\ Move(t, NewFrame(op, IF op = "drop_all" /\ lower(tname) \notin get_table_names(Self)
                                THEN "folder_acquire" ELSE "check",
                            lower(tname)))
        /\ UNCHANGED <<db, schemas, rowgens, files, uuid_count, cfg, bottle_app, last, _save_last,
                       _save_queue_len, _save_pending_flag, threads, clock, _lock>>

\* save() is entered, or a background thread starts on _save_now
\* (pddb.py:295-306)
CallSaveM ==
    \E t \in Mutators :
        /\ calls[t] = Idle
        /\ Move(t, NewFrame("save", "save_acquire", ""))
        /\ UNCHANGED <<db, schemas, rowgens, files, uuid_count, cfg, bottle_app, last, _save_last,
                       _save_queue_len, _save_pending_flag, threads, clock, _lock>>

\* _check_tname(tname, noload): the test of pddb.py:853, and what follows
\* from it: the call goes on, or enters load(tname), or raises
CheckTnameM ==
    \E t \in Mutators :
        /\ calls[t] # Idle
        /\ calls[t].pc = "check"
        /\ Move(t, IF calls[t].tname \in DOMAIN db
                   THEN [calls[t] EXCEPT !.pc = after_check(calls[t].op)]
                   ELSE IF auto_load /\ calls[t].op \notin {"drop", "drop_all"}
                   THEN [calls[t] EXCEPT !.pc = "load_acquire"]
                   ELSE Raised(t, ErrTableNotFound))
        /\ UNCHANGED <<db, schemas, rowgens, files, uuid_count, cfg, bottle_app, last, _save_last,
                       _save_queue_len, _save_pending_flag, threads, clock, _lock>>

\* "with self._lock:" is entered (pddb.py:219, 270, 285, 308, 650, 750)
AcquireM ==
    \E t \in Mutators :
        /\ calls[t] # Idle
        /\ calls[t].pc \in AcquirePcs
        /\ CanAcquire(_lock)
        /\ _lock' = t
        /\ Move(t, [calls[t] EXCEPT !.pc = Inside(calls[t].pc)])
        /\ UNCHANGED <<db, schemas, rowgens, files, uuid_count, cfg, bottle_app, last, _save_last,
                       _save_queue_len, _save_pending_flag, threads, clock>>

\* load: the table is read or created (pddb.py:220-253)
LoadTablesM ==
    \E t \in Mutators :
        /\ calls[t] # Idle
        /\ calls[t].pc = "load_locked"
        /\ \E r \in {load_tables(Self, <<calls[t].tname>>, Nothing)} :
               /\ Commit(r.self)
               /\ Move(t, IF r.err # NoErr THEN Raised(t, r.err)
                          ELSE [calls[t] EXCEPT !.pc = "load_release"])
        /\ UNCHANGED <<cfg, bottle_app, last, clock, _lock>>

\* insert: the id is drawn and the record to store is built (pddb.py:635-648)
InsertPrepareM ==
    \E t \in Mutators :
        /\ calls[t] # Idle
        /\ calls[t].pc = "prepare"
        /\ uuid_count' = uuid_count + 1
        /\ Move(t, [Forget(calls[t]) EXCEPT
                        !.pc = "acquire",
                        !.record = insert_record_new([Self EXCEPT !.uuid_count = @ + 1],
                                                     calls[t].tname, calls[t].args)])
        /\ UNCHANGED <<db, schemas, rowgens, files, cfg, bottle_app, last, _save_last,
                       _save_queue_len, _save_pending_flag, threads, clock, _lock>>

\* _update_schema(tname, columns) once the table has been dropped: the first
\* column the schema lacks is appended to it (pddb.py:590-591) and
\* self._db[tname] raises (pddb.py:592)
_update_schema_dropped(self, tname, columns) ==
    LET missing == SelectSeq(columns, LAMBDA c : c \notin Range(self.schemas[tname]))
    IN  IF missing = <<>> THEN Return(self, Nothing)
        ELSE IF ~dynamic_schema THEN Raise(self, ErrUnknownColumn)
        ELSE LET appended == Append(self.schemas[tname], missing[1])
                 s1 == [self EXCEPT !.schemas = Put(self.schemas, tname, appended)]
                 chk == _check_columns(appended, FALSE)
             IN  Raise(s1, IF chk.err # NoErr THEN chk.err ELSE KeyError)

\* self._update_schema(tname, ...) in insert and upsert (pddb.py:652, 751)
UpdateSchemaM ==
    \E t \in Mutators :
        /\ calls[t] # Idle
        /\ calls[t].pc = "locked"
        /\ calls[t].op \in {"insert", "upsert"}
        /\ \E r \in {IF calls[t].tname \in DOMAIN db
                      THEN _update_schema(Self, calls[t].tname, Keys(calls[t].record))
                      ELSE _update_schema_dropped(Self, calls[t].tname,
                                                  Keys(calls[t].record))} :
               /\ Commit(r.self)
               /\ Move(t, IF r.err # NoErr THEN Raised(t, r.err)
                          ELSE [calls[t] EXCEPT !.pc = "store"])
        /\ UNCHANGED <<cfg, bottle_app, last, clock, _lock>>

\* insert: self._db[tname].loc[len(self._db[tname])] = row (pddb.py:654-655)
InsertRowM ==
    \E t \in Mutators :
        /\ calls[t] # Idle
        /\ calls[t].pc = "store"
        /\ calls[t].op = "insert"
        /\ IF calls[t].tname \in DOMAIN db
           THEN /\ db' = Put(db, calls[t].tname,
                             SetRow(db[calls[t].tname], Len(db[calls[t].tname].rows),
                                    calls[t].record))
                /\ Move(t, [calls[t] EXCEPT !.pc = after_store(calls[t].op)])
           ELSE /\ Move(t, Raised(t, KeyError))
                /\ UNCHANGED db
        /\ UNCHANGED <<schemas, rowgens, files, uuid_count, cfg, bottle_app, last, _save_last,
                       _save_queue_len, _save_pending_flag, threads, clock, _lock>>

\* upsert: ixs = self.find(...).index (pddb.py:720); when nothing matches the
\* call goes on as insert(tname, record) with the where values in the record
\* (pddb.py:723-732)
UpsertFindM ==
    \E t \in Mutators :
        /\ calls[t] # Idle
        /\ calls[t].pc = "find"
        /\ calls[t].op = "upsert"
        /\ \E f \in {find(Self, calls[t].tname, calls[t].where, calls[t].where_not, <<>>)} :
               Move(t, IF f.err # NoErr THEN Raised(t, f.err)
                       ELSE IF Cardinality(Index(f.ret)) = 0
                       THEN [calls[t] EXCEPT
                                !.op = "insert", !.pc = "check",
                                !.args = Overlay(calls[t].record,
                                                 [k \in DOMAIN calls[t].where |->
                                                     calls[t].where[k].items[1]])]
                       ELSE [calls[t] EXCEPT !.ixs = Index(f.ret), !.pc = "acquire"])
        /\ UNCHANGED <<db, schemas, rowgens, files, uuid_count, cfg, bottle_app, last, _save_last,
                       _save_queue_len, _save_pending_flag, threads, clock, _lock>>

\* upsert: self._db[tname].loc[ixs, field_key] = field_val (pddb.py:752-753).
\* When a label of ixs is no longer in the table, pandas raises a KeyError or
\* sets the rows that are left, depending on its version.
UpsertFieldM ==
    \E t \in Mutators, strict \in BOOLEAN :
        /\ calls[t] # Idle
        /\ calls[t].pc = "store"
        /\ calls[t].op = "upsert"
        /\ IF calls[t].tname \in DOMAIN db
              /\ (calls[t].ixs \subseteq Index(db[calls[t].tname]) \/ ~strict)
           THEN /\ db' = Put(db, calls[t].tname,
                             upsert_set_fields(db[calls[t].tname], calls[t].ixs,
                                               calls[t].record, Keys(calls[t].record)))
                /\ Move(t, [Forget(calls[t]) EXCEPT !.pc = after_store(calls[t].op)])
           ELSE /\ Move(t, Forget(Raised(t, KeyError)))
                /\ UNCHANGED db
        /\ UNCHANGED <<schemas, rowgens, files, uuid_count, cfg, bottle_app, last, _save_last,
                       _save_queue_len, _save_pending_flag, threads, clock, _lock>>

\* delete: delrows = self.find(...) (pddb.py:564)
DeleteFindM ==
    \E t \in Mutators :
        /\ calls[t] # Idle
        /\ calls[t].pc = "find"
        /\ calls[t].op = "delete"
        /\ \E f \in {find(Self, calls[t].tname, calls[t].where, calls[t].where_not, <<>>)} :
               Move(t, IF f.err # NoErr THEN Raised(t, f.err)
                       ELSE [calls[t] EXCEPT !.ixs = Index(f.ret), !.pc = "filter"])
        /\ UNCHANGED <<db, schemas, rowgens, files, uuid_count, cfg, bottle_app, last, _save_last,
                       _save_queue_len, _save_pending_flag, threads, clock, _lock>>

\* delete: dataframe = self._db[tname]; dataframe = dataframe[~(...)]
\* (pddb.py:567-568): a new frame without the rows found
DeleteFilterM ==
    \E t \in Mutators :
        /\ calls[t] # Idle
        /\ calls[t].pc = "filter"
        /\ Move(t, IF calls[t].tname \in DOMAIN db
                   THEN [calls[t] EXCEPT
                            !.pc = "write",
                            !.frame = [db[calls[t].tname] EXCEPT !.rows =
                                          SelectRows(db[calls[t].tname].rows,
                                                     Index(db[calls[t].tname]) \ calls[t].ixs)]]
                   ELSE Raised(t, KeyError))
        /\ UNCHANGED <<db, schemas, rowgens, files, uuid_count, cfg, bottle_app, last, _save_last,
                       _save_queue_len, _save_pending_flag, threads, clock, _lock>>

\* delete: self._db[tname] = dataframe (pddb.py:569); no with statement
\* surrounds lines 564-569
DeleteWriteM ==
    \E t \in Mutators :
        /\ calls[t] # Idle
        /\ calls[t].pc = "write"
        /\ db' = Put(db, calls[t].tname, calls[t].frame)
        /\ Move(t, [Forget(calls[t]) EXCEPT
                        !.pc = IF auto_save THEN "save_acquire" ELSE "return"])
        /\ UNCHANGED <<schemas, rowgens, files, uuid_count, cfg, bottle_app, last, _save_last,
                       _save_queue_len, _save_pending_flag, threads, clock, _lock>>

\* drop: del self._db[tname] and the file is removed (pddb.py:271-279)
DropTableM ==
    \E t \in Mutators :
        /\ calls[t] # Idle
        /\ calls[t].pc = "locked"
        /\ calls[t].op \in {"drop", "drop_all"}
        /\ IF calls[t].tname \in DOMAIN db
           THEN /\ db' = Del(db, calls[t].tname)
                /\ files' = IF persistent THEN Del(files, calls[t].tname) ELSE files
                /\ Move(t, [calls[t] EXCEPT !.pc = after_store(calls[t].op)])
           ELSE /\ Move(t, Raised(t, KeyError))
                /\ UNCHANGED <<db, files>>
        /\ UNCHANGED <<schemas, rowgens, uuid_count, cfg, bottle_app, last, _save_last,
                       _save_queue_len, _save_pending_flag, threads, clock, _lock>>

\* _save_now: the tables are written and the scheduler is reset
\* (pddb.py:309-334)
FlushM ==
    \E t \in Mutators :
        /\ calls[t] # Idle
        /\ calls[t].pc = "save_locked"
        /\ Commit(_save_now(Self))
        /\ Move(t, [calls[t] EXCEPT !.pc = "save_release"])
        /\ UNCHANGED <<cfg, bottle_app, last, clock, _lock>>

\* drop_all: the folder is removed when it is empty (pddb.py:286-293)
FolderM ==
    \E t \in Mutators :
        /\ calls[t] # Idle
        /\ calls[t].pc = "folder_locked"
        /\ Move(t, [calls[t] EXCEPT !.pc = "folder_release"])
        /\ UNCHANGED <<db, schemas, rowgens, files, uuid_count, cfg, bottle_app, last, _save_last,
                       _save_queue_len, _save_pending_flag, threads, clock, _lock>>

\* the with block is left: the lock is released.  An exception then leaves
\* the call; an insert made for an upsert whose where_not the new record
\* matches is followed by delete(tname, where={id: ...}) (pddb.py:735-740)
ReleaseM ==
    \E t \in Mutators :
        /\ calls[t] # Idle
        /\ calls[t].pc \in ReleasePcs
        /\ _lock = t
        /\ _lock' = Unlocked
        /\ Move(t, IF calls[t].err # NoErr THEN [calls[t] EXCEPT !.pc = "return"]
                   ELSE IF /\ calls[t].pc = "save_release"
                           /\ calls[t].op = "insert"
                           /\ \E k \in DOMAIN calls[t].where_not :
                                  calls[t].record[k] \in Range(calls[t].where_not[k].items)
                   THEN [calls[t] EXCEPT
                            !.op = "delete", !.pc = "check",
                            !.where = [k \in {_id_colname} |->
                                          CondStr(calls[t].record[_id_colname])],
                            !.where_not = EmptyDict]
                   ELSE [calls[t] EXCEPT !.pc = after_release(calls[t])])
        /\ UNCHANGED <<db, schemas, rowgens, files, uuid_count, cfg, bottle_app, last, _save_last,
                       _save_queue_len, _save_pending_flag, threads, clock>>

NextMutators ==
    \/ CallInsertM \/ CallUpsertM \/ CallDeleteM \/ CallLoadM \/ CallDropM \/ CallSaveM
    \/ CheckTnameM \/ AcquireM \/ LoadTablesM \/ InsertPrepareM \/ UpdateSchemaM
    \/ InsertRowM \/ UpsertFindM \/ UpsertFieldM \/ DeleteFindM \/ DeleteFilterM
    \/ DeleteWriteM \/ DropTableM \/ FlushM \/ FolderM \/ ReleaseM

SpecMutators == InitMutators /\ [][NextMutators]_vars

\* the file t.csv an earlier run has left: all the records but one that a
\* table may hold, with the ids drawn first
StoredTable ==
    to_csv([columns |-> <<_id_colname, "a">>,
            rows |-> [i \in 1..(MaxRows - 1) |->
                        [ix |-> i - 1, rec |-> [k \in {_id_colname, "a"} |->
                                                  IF k = "a" THEN Str("v1") ELSE uuid4(i)]]]],
           <<_id_colname, "a">>)

\* PandasDatabase(name) over the folder of an earlier run: no table is loaded
\* yet, the file is there
InitLocking ==
    /\ db = EmptyDict
    /\ schemas = EmptyDict
    /\ rowgens = EmptyDict
    /\ files = [tname \in TNames |-> StoredTable]
    /\ uuid_count = MaxRows - 1
    /\ cfg = ConfigMutators
    /\ bottle_app = NoApp
    /\ last = [op |-> "init", err |-> NoErr, path |-> ""]
    /\ _save_last = 0
    /\ _save_queue_len = 0
    /\ _save_pending_flag = FALSE
    /\ threads = <<>>
    /\ clock = 1
    /\ _lock = Unlocked
    /\ calls = [t \in Mutators |-> Idle]

SpecLocking == InitLocking /\ [][NextMutators]_vars

-----------------------------------------------------------------------------
(* The state machine of deferred saving: every mutation calls save(), which
   starts background threads instead of writing; the threads run at any later
   moment, a worder no sooner than its sleep has ended *)

\* PandasDatabase(name, dynamic_schema=True, auto_load=False, auto_save=True,
\*                deferred_save=True, persistent=True)
ConfigDeferred ==
    [dynamic_schema |-> TRUE, auto_load |-> FALSE, auto_save |-> TRUE, persistent |-> TRUE,
     deferred_save |-> TRUE, save_wait |-> SaveWait, save_queue_max |-> QueueMax]

InitDeferred ==
    /\ db = EmptyDict
    /\ schemas = EmptyDict
    /\ rowgens = EmptyDict
    /\ files = EmptyDict
    /\ uuid_count = 0
    /\ cfg = ConfigDeferred
    /\ bottle_app = NoApp
    /\ last = [op |-> "init", err |-> NoErr, path |-> ""]
    /\ _save_last = 0
    /\ _save_queue_len = 0
    /\ _save_pending_flag = FALSE
    /\ threads = <<>>
    /\ clock = 1
    /\ _lock = Unlocked
    /\ calls = [t \in Callers |-> Idle]

\* the threads started and not yet run, without the i-th
Others(i) == [j \in 1..(Len(threads) - 1) |-> IF j < i THEN threads[j] ELSE threads[j + 1]]

\* load(table_names=tname) on the new database
LoadDeferred ==
    \E tname \in TNames :
        \E r \in {load(Self, Some(<<tname>>), Nothing, Nothing)} :
            /\ db = EmptyDict
            /\ Commit(r.self)
            /\ last' = [op |-> "load", err |-> r.err, path |-> ""]
            /\ UNCHANGED <<cfg, bottle_app, clock, _lock, calls>>

\* insert(tname, record) into the loaded table: a mutation, followed by
\* "if self.auto_save: self.save()".  The clock is followed up to MaxClock, so
\* a mutation is issued while its timer can still expire before that.
InsertDeferred ==
    \E tname \in TNames, record \in {[k \in {"a"} |-> Str("v1")]} :
        /\ lower(tname) \in DOMAIN db
        /\ uuid_count < save_queue_max + 2
        /\ time + save_wait < MaxClock
        /\ Len(threads) + 2 <= MaxThreads
        /\ \E r \in {insert(Self, tname, record, <<>>)} :
               /\ Commit(r.self)
               /\ last' = [op |-> "insert", err |-> r.err, path |-> ""]
               /\ UNCHANGED <<cfg, bottle_app, clock, _lock, calls>>

\* time passes
Tick ==
    /\ clock < MaxClock
    /\ clock' = clock + 1
    /\ UNCHANGED <<db, schemas, rowgens, files, uuid_count, cfg, bottle_app, last, _save_last,
                   _save_queue_len, _save_pending_flag, threads, _lock, calls>>

\* a thread started with target=self._save_now runs
RunFlush ==
    \E i \in 1..Len(threads) :
        /\ threads[i].target = "_save_now"
        /\ Commit(_save_now([Self EXCEPT !.threads = Others(i)]))
        /\ UNCHANGED <<cfg, bottle_app, last, clock, _lock, calls>>

\* a thread started with target=worder runs self._save_defer(waittime) once
\* its sleep(waittime) has ended
RunWorder ==
    \E i \in 1..Len(threads) :
        /\ threads[i].target = "_save_defer"
        /\ time >= threads[i].started + threads[i].waittime
        /\ Len(threads) + 1 <= MaxThreads
        /\ Commit(_save_defer([Self EXCEPT !.threads = Others(i)], threads[i].waittime))
        /\ UNCHANGED <<cfg, bottle_app, last, clock, _lock, calls>>

NextDeferred == LoadDeferred \/ InsertDeferred \/ Tick \/ RunFlush \/ RunWorder

SpecDeferred == InitDeferred /\ [][NextDeferred]_vars

\* time passes, and every thread that has been started gets to run
SpecDeferredFair ==
    SpecDeferred /\ WF_vars(Tick) /\ WF_vars(RunFlush) /\ WF_vars(RunWorder)

\* insert(tname, record) by a caller that notes the time of its mutation
InsertTimed ==
    \E tname \in TNames, record \in {[k \in {"a"} |-> Str("v1")]} :
        /\ lower(tname) \in DOMAIN db
        /\ uuid_count < MaxIds
        /\ Len(threads) + 2 <= MaxThreads
        /\ \E r \in {insert(Self, tname, record, <<>>)} :
               /\ Commit(r.self)
               /\ last' = [op |-> "insert", err |-> r.err, path |-> time]
               /\ UNCHANGED <<cfg, bottle_app, clock, _lock, calls>>

NextDebounce == LoadDeferred \/ InsertTimed \/ Tick \/ RunFlush \/ RunWorder

\* deferred saving under mutations made at any time
SpecDebounce == InitDeferred /\ [][NextDebounce]_vars

-----------------------------------------------------------------------------
(* Properties of insert, the id column and delete *)

\* C1: insert/find round trip.  In any reachable state, when insert(T, R)
\* returns a record with generated id i, find(T, where={id: i}) returns exactly
\* one record, and that record carries every field of the returned record.
C1_InsertFindRoundTrip ==
    \A tname \in TNames, record \in Records :
        CanInsert(tname, record, EmptyDict, <<>>) =>
            LET ins == insert(Self, tname, record, <<>>)
                f == find(ins.self, tname,
                          [k \in {_id_colname} |-> CondStr(ins.ret[_id_colname])],
                          EmptyDict, <<>>)
            IN  ins.err = NoErr =>
                    /\ f.err = NoErr
                    /\ Len(f.ret.rows) = 1
                    /\ \A k \in DOMAIN ins.ret : f.ret.rows[1].rec[k] = ins.ret[k]

\* C2: insert appends.  In any reachable state, a successful insert(T, R) on a
\* table holding n records leaves it holding n+1 records: the n earlier
\* records keep their place, their id and their field values, and the new
\* record is the last one.
C2_InsertAppends ==
    \A tname \in TNames, record \in Records :
        (CanInsert(tname, record, EmptyDict, <<>>) /\ lower(tname) \in DOMAIN db) =>
            LET ins == insert(Self, tname, record, <<>>)
                old == db[lower(tname)].rows
                new == ins.self.db[lower(tname)].rows
            IN  ins.err = NoErr =>
                    /\ Len(new) = Len(old) + 1
                    /\ \A i \in 1..Len(old) :
                          \A k \in DOMAIN old[i].rec : new[i].rec[k] = old[i].rec[k]
                    /\ new[Len(new)].rec[_id_colname] = ins.ret[_id_colname]

\* C3: in every reachable state every record of every table has a non-null id
\* and no two records of the same table have the same id.
C3_IdsNonNullUnique ==
    \A tn \in DOMAIN db :
        LET rows == db[tn].rows
        IN  /\ \A i \in 1..Len(rows) :
                  /\ _id_colname \in DOMAIN rows[i].rec
                  /\ rows[i].rec[_id_colname] # None
            /\ \A i, j \in 1..Len(rows) :
                  i # j => rows[i].rec[_id_colname] # rows[j].rec[_id_colname]

\* C4: delete(T, where, where_not) removes exactly the records that
\* find(T, where, where_not) selects just before the call: the K selected
\* records are returned, T's record count drops by K, every other record is
\* still present and unchanged, and no later find returns the id of a deleted
\* record.
C4_DeleteRemovesExactlyMatches ==
    \A tname \in TNames, q \in Queries(uuid_count) :
        (q.columns = <<>> /\ lower(tname) \in DOMAIN db) =>
            LET f == find(Self, tname, q.where, q.where_not, <<>>)
                d == delete(Self, tname, q.where, q.where_not)
                old == db[lower(tname)].rows
                new == d.self.db[lower(tname)].rows
                later == find(d.self, tname, EmptyDict, EmptyDict, <<>>)
            IN  f.err = NoErr =>
                    /\ d.err = NoErr
                    /\ d.ret = f.ret
                    /\ Len(new) = Len(old) - Len(f.ret.rows)
                    /\ new = SelectRows(old, Index(db[lower(tname)]) \ Index(f.ret))
                    /\ later.err = NoErr
                    /\ \A i \in 1..Len(later.ret.rows), j \in 1..Len(f.ret.rows) :
                          later.ret.rows[i].rec[_id_colname] # f.ret.rows[j].rec[_id_colname]

-----------------------------------------------------------------------------
(* Properties of upsert *)

\* C5: an upsert whose predicates match one or more records sets each field
\* named in record in every matched record, and leaves unchanged every other
\* field, the id of every record, every non-matched record and the record
\* count; it returns the matched records in their updated state.
C5_UpsertUpdateFrame ==
    \A tname \in TNames, record \in Records, q \in Queries(uuid_count) :
        (q.columns = <<>> /\ lower(tname) \in DOMAIN db) =>
            LET u == upsert(Self, tname, record, q.where, q.where_not, <<>>)
                f == find(Self, tname, q.where, q.where_not, <<>>)
                old == db[lower(tname)].rows
                new == u.self.db[lower(tname)].rows
            IN  (u.path = "update" /\ u.err = NoErr) =>
                    /\ Len(new) = Len(old)
                    /\ \A i \in 1..Len(old) :
                          /\ new[i].ix = old[i].ix
                          /\ new[i].rec[_id_colname] = old[i].rec[_id_colname]
                          /\ \A k \in DOMAIN old[i].rec :
                                IF old[i].ix \in Index(f.ret) /\ k \in DOMAIN record
                                THEN new[i].rec[k] = record[k]
                                ELSE new[i].rec[k] = old[i].rec[k]
                    /\ u.ret.rows = SelectRows(new, Index(f.ret))

\* C6: when upsert(T, record, where, where_not) matches zero records and the
\* record it would insert (row-generator defaults, where values, record
\* fields) carries, for some where_not column, a value listed in that
\* condition, the call fails with the upsert-conflict error and T's records
\* after the call are exactly T's records before it, whatever the columns
\* argument is.
C6_UpsertConflictRetracts ==
    \A tname \in TNames, record \in Records, q \in Queries(uuid_count) :
        LET tn == lower(tname)
            u == upsert(Self, tname, record, q.where, q.where_not, q.columns)
            firsts == [k \in DOMAIN q.where |-> q.where[k].items[1]]
            synthesized == Overlay(IF tn \in DOMAIN rowgens THEN rowgens[tn] ELSE EmptyDict,
                                   Overlay(record, firsts))
            old == IF tn \in DOMAIN db THEN db[tn].rows ELSE <<>>
            new == u.self.db[tn].rows
        IN  (/\ CanInsert(tname, record, q.where, q.columns)
             /\ u.path = "no match"
             /\ \E k \in DOMAIN q.where_not :
                   /\ k \in DOMAIN synthesized
                   /\ \E i \in 1..Len(q.where_not[k].items) :
                         synthesized[k] = q.where_not[k].items[i])
            => /\ u.err = ErrConflict
               /\ Len(new) = Len(old)
               /\ \A i \in 1..Len(old) :
                     \A k \in DOMAIN old[i].rec : new[i].rec[k] = old[i].rec[k]

\* C7: when upsert(T, record, where, where_not) matches zero records and the
\* synthesized record satisfies no where_not condition, the call succeeds: T
\* gains exactly one record, which carries the first value of every where
\* column together with the fields of record and a fresh id, and which is
\* returned; also when only where_not is given and when a where_not column is
\* not among the synthesized record's fields.
C7_UpsertInsertsOnNoMatch ==
    \A tname \in TNames, record \in Records, q \in Queries(uuid_count) :
        LET tn == lower(tname)
            u == upsert(Self, tname, record, q.where, q.where_not, q.columns)
            firsts == [k \in DOMAIN q.where |-> q.where[k].items[1]]
            synthesized == Overlay(IF tn \in DOMAIN rowgens THEN rowgens[tn] ELSE EmptyDict,
                                   Overlay(record, firsts))
            old == IF tn \in DOMAIN db THEN db[tn].rows ELSE <<>>
            new == u.self.db[tn].rows
        IN  (/\ CanInsert(tname, record, q.where, q.columns)
             /\ u.path = "no match"
             /\ \A k \in DOMAIN q.where_not :
                   k \in DOMAIN synthesized =>
                       \A i \in 1..Len(q.where_not[k].items) :
                           synthesized[k] # q.where_not[k].items[i])
            => /\ u.err = NoErr
               /\ Len(new) = Len(old) + 1
               /\ \A k \in (DOMAIN synthesized) \ {_id_colname} :
                     new[Len(new)].rec[k] = synthesized[k]
               /\ new[Len(new)].rec[_id_colname] = uuid4(uuid_count + 1)
               /\ \A k \in DOMAIN u.ret : u.ret[k] = new[Len(new)].rec[k]

\* C8: upsert(T, record=R) with no where and no where_not predicate has the
\* same effect as insert(T, record=R): from the same state the two calls end
\* in the same tables (same schema, same records, the generated id being the
\* next one drawn), the same saved files, and the same result or error.
C8_UpsertWithoutPredicatesIsInsert ==
    \A tname \in TNames, record \in Records, columns \in {<<>>, <<"b">>} :
        CanInsert(tname, record, EmptyDict, columns) =>
            LET u == upsert(Self, tname, record, EmptyDict, EmptyDict, columns)
                i == insert(Self, tname, record, columns)
            IN  /\ u.self.db = i.self.db
                /\ u.self.schemas = i.self.schemas
                /\ u.self.files = i.self.files
                /\ u.self.uuid_count = i.self.uuid_count
                /\ u.err = i.err
                /\ u.ret = i.ret

\* C8 witness: an upsert without predicates has just stored a record in a
\* table that already held one
C8_Witness ==
    /\ last.op = "upsert"
    /\ last.path = "no predicate"
    /\ last.err = NoErr
    /\ \E tn \in DOMAIN db : Len(db[tn].rows) >= 2

-----------------------------------------------------------------------------
(* Properties of find *)

\* C9: in any reachable state find(T, where=W, where_not=N) returns, in stored
\* order, exactly the records of T that satisfy every entry of W and do not
\* satisfy the conjunction of the entries of N; an entry on a column T does not
\* have is satisfied by no record.
C9_FindSelectsByWhereAndWhereNot ==
    \A tname \in TNames, q \in Queries(uuid_count) :
        (q.columns = <<>> /\ lower(tname) \in DOMAIN db) =>
            LET dataframe == db[lower(tname)]
                f == find(Self, tname, q.where, q.where_not, <<>>)
                Satisfies(rec, cond) ==
                    \A k \in DOMAIN cond :
                        /\ k \in Range(dataframe.columns)
                        /\ \E i \in 1..Len(cond[k].items) : rec[k] = cond[k].items[i]
                selected == {dataframe.rows[i].ix : i \in
                                {j \in 1..Len(dataframe.rows) :
                                    /\ Satisfies(dataframe.rows[j].rec, q.where)
                                    /\ (DOMAIN q.where_not = {}
                                        \/ ~Satisfies(dataframe.rows[j].rec, q.where_not))}}
            IN  /\ f.err = NoErr
                /\ f.ret.rows = SelectRows(dataframe.rows, selected)

\* C10: for a condition {col: [v1, .., vk]} with k >= 2 plain values, find
\* returns exactly the records whose col value is one of v1..vk, in insertion
\* order (the order in which their ids were generated).
C10_FindWhereIn ==
    \A tname \in TNames, col \in UserCols :
        (lower(tname) \in DOMAIN db /\ col \in Range(db[lower(tname)].columns)) =>
            LET dataframe == db[lower(tname)]
                vs == <<Str("v1"), Str("v2")>>
                f == find(Self, tname, [k \in {col} |-> CondList(vs)], EmptyDict, <<>>)
                rows == f.ret.rows
            IN  /\ f.err = NoErr
                /\ {rows[i].rec[_id_colname] : i \in 1..Len(rows)} =
                      {dataframe.rows[i].rec[_id_colname] : i \in
                          {j \in 1..Len(dataframe.rows) : dataframe.rows[j].rec[col] \in Range(vs)}}
                /\ \A i, j \in 1..Len(rows) :
                      (/\ i < j
                       /\ rows[i].rec[_id_colname][1] = "uuid"
                       /\ rows[j].rec[_id_colname][1] = "uuid")
                      => rows[i].rec[_id_colname][2] < rows[j].rec[_id_colname][2]

\* the columns arguments of a projection
Projections == {<<"a">>, <<"b">>, <<"a", "b">>, <<_id_colname>>}

\* C11: projection does not change selection.  For a column list S within T's
\* schema, find(T, where, where_not, columns=S) returns the same records, in
\* the same order, as find(T, where, where_not), each restricted to the
\* columns of S, also when a condition column is not in S.
C11_ProjectionKeepsSelection ==
    \A tname \in TNames, q \in Queries(uuid_count), S \in Projections :
        (/\ q.columns = <<>>
         /\ lower(tname) \in DOMAIN db
         /\ Range(S) \subseteq Range(schemas[lower(tname)]))
        => LET full == find(Self, tname, q.where, q.where_not, <<>>)
               proj == find(Self, tname, q.where, q.where_not, S)
           IN  full.err = NoErr =>
                   /\ proj.err = NoErr
                   /\ proj.ret.rows =
                          [i \in 1..Len(full.ret.rows) |->
                              [ix |-> full.ret.rows[i].ix,
                               rec |-> [c \in Range(S) |-> full.ret.rows[i].rec[c]]]]

\* C12: a null marker is a single-value condition.  On an existing table T
\* with column C, find(T, where={C: None}) succeeds and returns exactly the
\* records whose C value is null, and find_one returns the first of them, or
\* an empty result when there is none.
C12_FindWhereNull ==
    \A tname \in TNames, C \in UserCols :
        (lower(tname) \in DOMAIN db /\ C \in Range(db[lower(tname)].columns)) =>
            LET dataframe == db[lower(tname)]
                where == [k \in {C} |-> CondNone]
                f == find(Self, tname, where, EmptyDict, <<>>)
                one == find_one(Self, tname, where, EmptyDict, <<>>)
                nulls == SelectRows(dataframe.rows,
                                    {dataframe.rows[i].ix : i \in
                                        {j \in 1..Len(dataframe.rows) :
                                            dataframe.rows[j].rec[C] = None}})
            IN  /\ f.err = NoErr
                /\ f.ret.rows = nulls
                /\ one.err = NoErr
                /\ one.ret = IF Len(nulls) > 0 THEN nulls[1].rec ELSE EmptyDict

\* C13: find and find_one are read-only.  Whatever the arguments, the engine
\* state after the call (the tables, their schemas and records, the saved
\* files, the save scheduler) is the state before it; on a table name that
\* does not exist both return an empty result and the table is not created,
\* also with auto_load and dynamic_schema enabled.
C13_FindIsReadOnly ==
    \A tname \in TNames \cup {"T"}, q \in Queries(uuid_count) \cup {NullQuery} :
        LET f == find(Self, tname, q.where, q.where_not, q.columns)
            one == find_one(Self, tname, q.where, q.where_not, q.columns)
        IN  /\ f.self = Self
            /\ one.self = Self
            /\ lower(tname) \notin DOMAIN db =>
                   /\ f.err = NoErr
                   /\ f.ret = DataFrame(<<>>)
                   /\ one.err = NoErr
                   /\ one.ret = EmptyDict
                   /\ lower(tname) \notin DOMAIN f.self.db
                   /\ lower(tname) \notin DOMAIN one.self.db

\* C13 witness: with auto_load and dynamic_schema enabled, a find has just
\* been answered on a table that was created, filled and dropped, and the
\* table is still absent
C13_Witness ==
    /\ last.op \in {"find", "find_one"}
    /\ last.path = "no table"
    /\ last.err = NoErr
    /\ auto_load /\ dynamic_schema
    /\ uuid_count > 0
    /\ "t" \in DOMAIN schemas
    /\ "t" \notin DOMAIN db

-----------------------------------------------------------------------------
(* Properties of the schema *)

\* the state of table tn after a call stored a new record that names the new
\* column C with value v: C is in the schema, the table has one more record,
\* the new record is the last one and carries v, and every earlier record is
\* in its place with a null C and its other values unchanged
ColumnAdded(self, tn, C, v) ==
    LET old == db[tn].rows
        new == self.db[tn].rows
    IN  /\ C \in Range(self.schemas[tn])
        /\ Len(new) = Len(old) + 1
        /\ C \in DOMAIN new[Len(new)].rec
        /\ new[Len(new)].rec[C] = v
        /\ \A i \in 1..Len(old) :
              /\ C \in DOMAIN new[i].rec
              /\ new[i].rec[C] = None
              /\ \A k \in DOMAIN old[i].rec : new[i].rec[k] = old[i].rec[k]

\* C14: with dynamic schema enabled, an insert, or an upsert that stores a new
\* record, whose record names a column C not yet in T's schema succeeds, adds
\* C to the schema, stores the given value in the new record, and leaves
\* every earlier record with a null C and its other values unchanged.
C14_NewColumnEvolvesSchema ==
    \A tname \in TNames, record \in Records, C \in UserCols :
        (/\ dynamic_schema
         /\ lower(tname) \in DOMAIN db
         /\ C \in DOMAIN record
         /\ C \notin Range(schemas[lower(tname)])
         /\ CanInsert(tname, record, EmptyDict, <<>>))
        => LET ins == insert(Self, tname, record, <<>>)
               ups == upsert(Self, tname, record, EmptyDict, EmptyDict, <<>>)
               upw == upsert(Self, tname, record, [k \in {_id_colname} |-> CondStr(Str("v2"))],
                             EmptyDict, <<>>)
           IN  /\ ins.err = NoErr
               /\ ColumnAdded(ins.self, lower(tname), C, record[C])
               /\ ups.err = NoErr
               /\ ColumnAdded(ups.self, lower(tname), C, record[C])
               /\ upw.path = "no match" =>
                      /\ upw.err = NoErr
                      /\ ColumnAdded(upw.self, lower(tname), C, record[C])

\* the index labels of every table are 0..n-1 in stored order, as in a table
\* no record was deleted from
Aligned == \A tn \in DOMAIN db : \A i \in 1..Len(db[tn].rows) : db[tn].rows[i].ix = i - 1

\* a record that names a column no declared schema of the model has
UnknownColumnRecord == [k \in {"c"} |-> Str("v1")]

\* C15: with dynamic schema disabled, an insert or an upsert whose record
\* names a column outside the table's schema fails with the unknown-column
\* error, and the table's schema and records after the failed call are those
\* before it.
C15_FixedSchemaRejectsUnknownColumn ==
    \A tname \in TNames, q \in Queries(uuid_count) :
        (/\ ~dynamic_schema
         /\ q.columns = <<>>
         /\ lower(tname) \in DOMAIN db
         /\ "c" \notin Range(schemas[lower(tname)]))
        => LET ins == insert(Self, tname, UnknownColumnRecord, <<>>)
               ups == upsert(Self, tname, UnknownColumnRecord, q.where, q.where_not, <<>>)
           IN  /\ ins.err = ErrUnknownColumn
               /\ ins.self.db = db
               /\ ins.self.schemas = schemas
               /\ ups.err = ErrUnknownColumn
               /\ ups.self.db = db
               /\ ups.self.schemas = schemas

\* C16: in every reachable state every column name of every table's schema
\* matches ^[A-Za-z0-9_]*$, also after an insert, upsert or load that was
\* rejected with the invalid-column-name error.
C16_SchemaColumnNamesValid ==
    \A tn \in DOMAIN schemas :
        \A i \in 1..Len(schemas[tn]) : _colname_rgx_match(schemas[tn][i])

\* C17: in every reachable state every table of the database has a registered
\* schema, and that schema contains the id column: tables created with a
\* schema that lists the id column or not, tables created by dynamic schema,
\* tables loaded from their backing file, tables whose schema has evolved.
C17_TablesHaveSchemaWithId ==
    \A tn \in DOMAIN db :
        /\ tn \in DOMAIN schemas
        /\ _id_colname \in Range(schemas[tn])

\* C17 witness: a table whose schema has evolved has just been loaded from
\* its backing file
C17_Witness ==
    /\ last.op = "load"
    /\ last.path = "from file"
    /\ last.err = NoErr
    /\ "t" \in DOMAIN db
    /\ Len(db["t"].rows) > 0
    /\ "a" \in Range(schemas["t"])
-----------------------------------------------------------------------------
(* Properties of calls issued from several threads *)

\* C18: every step that changes a table's records, a table's schema or the set
\* of tables (the append in insert, the field update in upsert, the row removal
\* in delete, schema evolution, table creation in load and removal in drop) is
\* taken by a thread that holds the lock of the database at that moment.
C18_MutationsHoldLock ==
    [][(db' # db \/ schemas' # schemas) =>
          \E t \in Callers : calls'[t] # calls[t] /\ _lock = t]_vars

\* what find(tname, where, where_not) gives its caller on the engine state s
FindOn(s, o) ==
    LET f == find(s, o.tname, o.where, o.where_not, <<>>) IN [err |-> f.err, ret |-> f.ret]

\* the engine state once the writer's call m has run alone from the state it
\* was issued in
After(m) ==
    IF m.op = "insert" THEN insert(m.pre, m.tname, m.args, <<>>).self
    ELSE upsert(m.pre, m.tname, m.args, m.where, EmptyDict, <<>>).self

\* C19: a find that runs while an insert or an upsert update is under way
\* returns what find returns on the table entirely before that mutation or
\* entirely after it: never a table whose schema is extended while the record
\* is not appended yet, nor an upsert with only some of its fields applied.
C19_FindSeesWholeMutations ==
    LET o == calls["reader"] IN
        (o.op = "found" /\ o.during.op \in {"insert", "upsert"}) =>
            [err |-> o.err, ret |-> o.ret] \in {FindOn(o.during.pre, o), FindOn(After(o.during), o)}
-----------------------------------------------------------------------------
(* Properties of deferred saving *)

\* a thread that writes the tables has been started: it waits to run, or it
\* has run and left the file of the table
FlushStarted(tname) ==
    \/ \E i \in 1..Len(threads) : threads[i].target = "_save_now"
    \/ tname \in DOMAIN files

\* C20: deferred save with save_queue_max = N > 0, all mutations issued before
\* the wait interval has elapsed (here: less than save_wait has passed since
\* the database was constructed at time 1): after the first N mutations no
\* flush has been started and no file of the table exists; the (N+1)-th
\* mutation itself starts a flush.
C20_QueueForcesFlush ==
    \A tname \in DOMAIN db :
        (deferred_save /\ time - 1 < save_wait) =>
            /\ Len(db[tname].rows) \in 1..save_queue_max => ~FlushStarted(tname)
            /\ Len(db[tname].rows) = save_queue_max + 1 => FlushStarted(tname)

\* the file of every table that has records holds exactly these records
Flushed ==
    \A tname \in DOMAIN db :
        Len(db[tname].rows) > 0 =>
            /\ tname \in DOMAIN files
            /\ files[tname] = to_csv(db[tname], schemas[tname])

\* C21: deferred save on a persistent database with save_wait > 0: once no
\* further mutation is issued, a flush that writes the last mutation's effect
\* to the file eventually runs, also when fewer than save_queue_max mutations
\* were made and whatever timer threads and flushes ran before.
C21_DeferredSaveEventuallyFlushes == <>[]Flushed

\* one mutation only, fewer than the queue forces out, written by the timer
C21_Witness ==
    /\ deferred_save /\ persistent /\ save_wait > 0
    /\ uuid_count = 1
    /\ uuid_count <= save_queue_max
    /\ time > 1
    /\ threads = <<>>
    /\ \E tname \in DOMAIN db : Len(db[tname].rows) = 1 /\ Flushed

\* the timer threads that have been started and have not run yet
DelayedFlushes == {i \in 1..Len(threads) : threads[i].target = "_save_defer"}

\* C23: in deferred mode at most one delayed flush is outstanding at any time:
\* a mutation that arrives while a delayed flush is scheduled (the pending
\* flag is set) does not schedule another one.
C23_OneDelayedFlush == deferred_save => Cardinality(DelayedFlushes) <= 1

\* C24: when a flush completes on a persistent database in deferred mode, it
\* has reset the three scheduler variables: the time of the last flush is the
\* time of this flush, the mutation counter is 0 and the pending flag is
\* cleared, whether the timer or the queue bound started the flush.
C24_FlushResetsScheduler ==
    [][RunFlush => /\ _save_last' = time
                   /\ _save_queue_len' = 0
                   /\ _save_pending_flag' = FALSE]_vars

\* the number of started threads that will write the tables
FlushThreads(ths) == Cardinality({i \in 1..Len(ths) : ths[i].target = "_save_now"})

\* C32: deferred save debounces on the last operation: a flush that was not
\* forced by the queue bound (the counter did not exceed save_queue_max when
\* save() tested it) is started, and so can execute, no sooner than save_wait
\* after the most recent mutation (last.path is the time of that mutation).
C32_FlushWaitsForLastMutation ==
    [][(FlushThreads(threads') > FlushThreads(threads) /\ _save_queue_len <= save_queue_max)
          => time' >= last'.path + save_wait]_vars

\* C40: in deferred mode with save_queue_max > 0 the counter counts the
\* mutations since the last flush: every notified mutation adds one to it,
\* the one that forces a flush included; a timer thread that wakes up leaves
\* it as it is; a completed flush sets it to 0.
C40_CounterCountsMutations ==
    [][save_queue_max > 0 =>
          /\ InsertDeferred => _save_queue_len' = _save_queue_len + 1
          /\ RunWorder => _save_queue_len' = _save_queue_len
          /\ RunFlush => _save_queue_len' = 0]_vars

-----------------------------------------------------------------------------
(* Properties of immediate saving *)

\* the records of a frame, one dict per row over the frame's columns
FrameRecords(dataframe) ==
    [i \in 1..Len(dataframe.rows) |->
        [c \in Range(dataframe.columns) |->
            IF c \in DOMAIN dataframe.rows[i].rec THEN dataframe.rows[i].rec[c] ELSE None]]

-----------------------------------------------------------------------------
(* Properties of the set of tables *)

\* the schema, the records and the file of table u are the same in the engine
\* states s1 and s2
SameTable(s1, s2, u) ==
    /\ u \in DOMAIN s2.db /\ s2.db[u] = s1.db[u]
    /\ u \in DOMAIN s2.schemas /\ s2.schemas[u] = s1.schemas[u]
    /\ u \in DOMAIN s2.files <=> u \in DOMAIN s1.files
    /\ u \in DOMAIN s1.files => s2.files[u] = s1.files[u]

C26_LoadIsIdempotent ==
    \A a \in TableLoadArgs :
        LET r == load(Self, a.table_names, a.table_schemas, a.table_rowgens) IN
            r.err = NoErr =>
                \A tname \in get_table_names(Self) :
                    /\ tname \in get_table_names(r.self)
                    /\ r.self.db[tname] = db[tname]
                    /\ r.self.schemas[tname] = schemas[tname]

-----------------------------------------------------------------------------
(* Properties of row generators *)

\* every id stored in the engine state self
StoredIds(self) ==
    {self.db[t].rows[i].rec[_id_colname] : <<t, i>> \in
        {p \in (DOMAIN self.db) \X (1..MaxRows + 1) : p[2] <= Len(self.db[p[1]].rows)}}

\* C27: insert stores a record whose fields are the output of the table's row
\* generator overlaid by the caller's fields (the caller's value wins on a
\* shared column), and whose id is generated by this call and differs from
\* every id already in the database, whatever id the caller's record or the
\* row generator supplied; the row generator is called once.
C27_InsertOverlaysRowGenerator ==
    \A tname \in TNames, record \in RowgenRecords :
        LET r == insert(Self, tname, record, <<>>)
            t == lower(tname)
            id == uuid4(uuid_count + 1)
        IN  (t \in DOMAIN db /\ t \in DOMAIN rowgens /\ r.err = NoErr) =>
                /\ id \notin StoredIds(Self)
                /\ insert_rowgen_calls(Self, t) = 1
                /\ \E i \in 1..Len(r.self.db[t].rows) :
                       LET rec == r.self.db[t].rows[i].rec IN
                           /\ rec[_id_colname] = id
                           /\ \A c \in (DOMAIN record) \ {_id_colname} : rec[c] = record[c]
                           /\ \A c \in (DOMAIN rowgens[t]) \ ((DOMAIN record) \cup {_id_colname}) :
                                  rec[c] = rowgens[t][c]
                           /\ \A c \in DOMAIN rec :
                                  c \notin (DOMAIN record) \cup (DOMAIN rowgens[t]) \cup {_id_colname}
                                      => rec[c] = None

\* a record has been stored whose generator supplies an id and the column b,
\* with the caller's value of b and a generated id
C27_Witness ==
    /\ last.op = "insert" /\ last.err = NoErr
    /\ \E t \in DOMAIN db :
           /\ t \in DOMAIN rowgens
           /\ _id_colname \in DOMAIN rowgens[t]
           /\ \E i \in 1..Len(db[t].rows) :
                  /\ db[t].rows[i].rec[_id_colname] = uuid4(uuid_count)
                  /\ "b" \in DOMAIN db[t].rows[i].rec
                  /\ db[t].rows[i].rec["b"] = Str("v1")

-----------------------------------------------------------------------------
(* Properties of output shapes *)

\* the shapes a result of one record and a result of several records accept
SingleShapes == {"nonetype", "series", "str", "dict", "json"}

MultiShapes == {"nonetype", "dataframe", "dict", "str", "json"}

\* a call that returns under astype=None, outcome r0, and has outcome r under
\* astype, fails with the unsupported-shape error exactly for the shapes that
\* are not accepted
ShapeChecked(r0, r, astype, accepted) ==
    r0.err = NoErr => (r.err = ErrOutputType <=> astype_str(astype) \notin accepted)

-----------------------------------------------------------------------------
(* Properties of table names *)

\* the lower-case names among the names callers use
LowerNames == {"t", "u"}

\* the outcome r of a call equals the outcome of the same call under the
\* name written in the other case
SameOutcome(r1, r2) == r1.self = r2.self /\ r1.err = r2.err /\ r1.ret = r2.ret

\* load(table_rowgens={'T': f}) followed by insert under tname: the record
\* returned holds the fields f generates
GeneratedUnder(tname) ==
    LET r == load(Self, Nothing, Nothing, Some([k \in {"T"} |-> RowGen]))
        i == insert(r.self, tname, EmptyDict, <<>>)
    IN  (r.err = NoErr /\ i.err = NoErr) =>
            \A c \in DOMAIN RowGen : c \in DOMAIN i.ret /\ i.ret[c] = RowGen[c]

\* C29: table names are case-insensitive: load, insert, upsert, find, delete,
\* drop and get_table_schema called with "T" do what they do with "t", every
\* key of the table set (and of the schema and row generator stores) is
\* lower-case in every reachable state, and a row generator registered under
\* "T" is applied to inserts made under "t" and under "T".
C29_TableNamesIgnoreCase ==
    /\ DOMAIN db \cup DOMAIN schemas \cup DOMAIN rowgens \cup DOMAIN files \subseteq LowerNames
    /\ SameOutcome(load(Self, Some(<<"T">>), Nothing, Nothing),
                   load(Self, Some(<<"t">>), Nothing, Nothing))
    /\ SameOutcome(load(Self, Nothing, Some([k \in {"T"} |-> <<"a">>]), Nothing),
                   load(Self, Nothing, Some([k \in {"t"} |-> <<"a">>]), Nothing))
    /\ SameOutcome(load(Self, Nothing, Nothing, Some([k \in {"T"} |-> RowGen])),
                   load(Self, Nothing, Nothing, Some([k \in {"t"} |-> RowGen])))
    /\ SameOutcome(drop(Self, <<"T">>), drop(Self, <<"t">>))
    /\ SameOutcome(get_table_schema(Self, "T"), get_table_schema(Self, "t"))
    /\ \A record \in {[k \in {"a"} |-> Str("v1")]} :
           SameOutcome(insert(Self, "T", record, <<>>), insert(Self, "t", record, <<>>))
    /\ SameOutcome(find(Self, "T", EmptyDict, EmptyDict, <<>>),
                   find(Self, "t", EmptyDict, EmptyDict, <<>>))
    /\ \A record \in {[k \in {"a"} |-> Str("v2")]}, where \in IdConds(uuid_count) :
           /\ SameOutcome(upsert(Self, "T", record, where, EmptyDict, <<>>),
                          upsert(Self, "t", record, where, EmptyDict, <<>>))
           /\ SameOutcome(find(Self, "T", where, EmptyDict, <<>>),
                          find(Self, "t", where, EmptyDict, <<>>))
           /\ SameOutcome(delete(Self, "T", where, EmptyDict),
                          delete(Self, "t", where, EmptyDict))
    /\ GeneratedUnder("t")
    /\ GeneratedUnder("T")

\* a record was inserted under "t" into the table whose row generator was
\* registered under "T", and it holds the generated field
C29_Witness ==
    /\ last.op = "insert" /\ last.path = "t" /\ last.err = NoErr
    /\ "t" \in DOMAIN rowgens
    /\ \E i \in 1..Len(db["t"].rows) :
           /\ db["t"].rows[i].rec[_id_colname] = uuid4(uuid_count)
           /\ "b" \in DOMAIN db["t"].rows[i].rec
           /\ db["t"].rows[i].rec["b"] = RowGen["b"]

-----------------------------------------------------------------------------
(* Properties of upsert's default to insert *)

\* the record labelled _id is among the rows of the DataFrame
Holds(dataframe, _id) ==
    \E i \in 1..Len(dataframe.rows) : dataframe.rows[i].rec[_id_colname] = _id

\* C30: after an upsert that found no matching record and inserted a new one
\* successfully, find with the same where and where_not returns the new
\* record, for every condition shape and column, the id column included.
C30_UpsertedRecordIsFound ==
    \A tname \in TNames, record \in Records, q \in Queries(uuid_count) :
        LET u == upsert(Self, tname, record, q.where, q.where_not, <<>>)
            f == find(u.self, tname, q.where, q.where_not, <<>>)
        IN  (CanInsert(tname, record, q.where, <<>>) /\ u.path = "no match" /\ u.err = NoErr)
                => (f.err = NoErr /\ Holds(f.ret, u.ret[_id_colname]))

-----------------------------------------------------------------------------
(* Properties of the web API *)

\* the permission of a table: the one listed for it, or else the default
permission_of(app, tname) ==
    IF tname \in DOMAIN app.table_permissions THEN app.table_permissions[tname]
    ELSE app.default_permissions

\* a request can make the engine run action on the table
Reaches(routes, action, tname) ==
    \/ Routed(routes, action, tname)
    \/ action = "find" /\ Routed(routes, "html", tname)

\* C31: route binding respects permissions: for a table whose permission is
\* 'r' the only engine action reachable through the bound routes is find;
\* insert, upsert, delete and drop are reachable only for tables whose
\* permission is 'w'; with permission None no action is reachable.
C31_RoutesRespectPermissions ==
    \A tname \in TNames, action \in all_actions :
        Reaches(bottle_app.routes, action, tname)
            => action \in allowed_actions(permission_of(bottle_app, tname))

-----------------------------------------------------------------------------
(* Properties of rejected writes *)

\* the outcome r of a write issued in the state self was a rejection of a
\* column name, and it left the schema and the table of tname as they were,
\* with the same columns in both
Untouched(self, r, tname) ==
    /\ r.self.schemas[tname] = self.schemas[tname]
    /\ r.self.db[tname] = self.db[tname]
    /\ Range(r.self.schemas[tname]) = Range(r.self.db[tname].columns)

\* C37: a rejected write has no partial effect: when insert or upsert under
\* dynamic schema is rejected because a column name of the record is invalid,
\* the schema and the records of the table are as before the call, the schema
\* and the stored table's columns stay equal, and the same call repeated is
\* rejected again.
C37_RejectedWriteChangesNothing ==
    \A tname \in TNames, record \in ColumnRecords, where \in {EmptyDict} \cup IdConds(uuid_count) :
        (dynamic_schema /\ lower(tname) \in DOMAIN db
           /\ Range(schemas[lower(tname)]) = Range(db[lower(tname)].columns)) =>
            LET ins == insert(Self, tname, record, <<>>)
                ups == upsert(Self, tname, record, where, EmptyDict, <<>>)
            IN  /\ ins.err = ErrInvalidColumn =>
                       /\ Untouched(Self, ins, lower(tname))
                       /\ insert(ins.self, tname, record, <<>>).err = ErrInvalidColumn
                /\ ups.err = ErrInvalidColumn =>
                       /\ Untouched(Self, ups, lower(tname))
                       /\ upsert(ups.self, tname, record, where, EmptyDict, <<>>).err
                              = ErrInvalidColumn

-----------------------------------------------------------------------------
(* Properties of the backing files *)

\* the files a step has written: the new ones and the ones whose content
\* has changed
Written(before, now) ==
    {t \in DOMAIN now : t \notin DOMAIN before \/ now[t] # before[t]}

\* C38: whenever a table is written to its backing file, the header lists the
\* table's columns in schema order and the id column is the last column, for
\* tables created with an explicit schema and for tables created with the
\* minimal schema and extended by dynamic schema evolution.
C38_HeaderInSchemaOrderIdLast ==
    [][\A t \in Written(files, files') :
          /\ files'[t].header = schemas'[t]
          /\ files'[t].header[Len(files'[t].header)] = _id_colname]_vars

-----------------------------------------------------------------------------
(* Properties of two threads changing tables *)

\* thread t is at position pc of a call and takes its step
Steps(t, pc) == calls[t] # Idle /\ calls[t].pc = pc /\ calls'[t] # calls[t]

\* the index labels of the records of tname that match the predicates of the
\* call of thread t now
MatchingNow(t) ==
    Index(find(Self, calls[t].tname, calls[t].where, calls[t].where_not, <<>>).ret)

\* C33: upsert is atomic with respect to concurrent mutations of the same
\* table: when the update is applied, the records it writes to are exactly
\* those that match its predicates at that moment, and a delete, drop or
\* insert by another thread since the matching step does not make it fail.
C33_UpsertUpdatesWhatMatchesNow ==
    [][\A t \in Mutators :
          /\ (Steps(t, "store") /\ calls[t].op = "upsert")
                => /\ calls[t].ixs = MatchingNow(t)
                   /\ calls'[t].err = NoErr
          /\ (Steps(t, "locked") /\ calls[t].op = "upsert") => calls'[t].err = NoErr]_vars

\* C34: no lost update between insert and delete: delete's write-back keeps
\* every record the table holds at that moment that does not match the
\* delete's predicates, so a record appended between delete's read of the
\* table and its write-back is not discarded.
C34_DeleteKeepsWhatDoesNotMatch ==
    [][\A t \in Mutators :
          (Steps(t, "write") /\ calls[t].tname \in DOMAIN db)
            => \A i \in 1..Len(db[calls[t].tname].rows) :
                  db[calls[t].tname].rows[i].ix \notin MatchingNow(t)
                    => db[calls[t].tname].rows[i] \in Range(db'[calls[t].tname].rows)]_vars

\* C35: concurrent auto-creation is safe: the creation of a table that an
\* insert found missing never replaces a table that exists by then, so the
\* records another thread has stored in it meanwhile are kept.
C35_AutoCreationKeepsTheTable ==
    [][\A t \in Mutators :
          (Steps(t, "load_locked") /\ calls[t].op = "insert" /\ calls[t].tname \in DOMAIN db)
            => /\ calls[t].tname \in DOMAIN db'
               /\ FrameRecords(db'[calls[t].tname]) = FrameRecords(db[calls[t].tname])]_vars

\* thread t is inside a with block of insert or upsert, or inside the one of
\* _save_now
Writing(t) == calls[t] # Idle /\ calls[t].pc \in {"locked", "store", "save_locked"}

\* C36: a flush reads and writes the tables while it holds the lock, so it is
\* serialized against inserts, upsert updates and other flushes: when
\* _save_now writes, its thread holds the lock, no other thread is inside
\* the with block of an insert, of an upsert or of another flush, and the
\* file of every table that has records gets the records the table holds at
\* that moment (a table without records is left without a file).
C36_FlushIsSerialized ==
    [][\A t \in Mutators :
          Steps(t, "save_locked")
            => /\ _lock = t
               /\ \A u \in Mutators \ {t} : ~Writing(u)
               /\ \A tname \in DOMAIN db :
                     IF Len(db[tname].rows) > 0
                     THEN /\ tname \in DOMAIN files'
                          /\ files'[tname] = to_csv(db[tname], schemas[tname])
                     ELSE tname \notin DOMAIN files']_vars

\* a flush has written while an insert of the other thread waits for the lock
C36_Witness ==
    \E t \in Mutators, u \in Mutators :
        /\ calls[t] # Idle /\ calls[t].pc = "save_release"
        /\ calls[u] # Idle /\ calls[u].pc = "acquire" /\ calls[u].op = "insert"
        /\ "t" \in DOMAIN files /\ Len(files["t"].lines) > 0

\* C39: the lock never causes a deadlock: no thread waits for the lock while
\* it holds the lock itself, the thread that holds it is inside a with block
\* (which it leaves, releasing the lock, also when an error is raised), and
\* whenever a call is in progress some thread neither waits for a lock that
\* is held nor has lost the lock it is about to release.
C39_NoDeadlock ==
    /\ \A t \in Mutators :
          /\ (calls[t] # Idle /\ calls[t].pc \in AcquirePcs) => _lock # t
          /\ calls[t] = Idle => _lock # t
          /\ (calls[t] # Idle /\ calls[t].pc \in LockedPcs \cup ReleasePcs) => _lock = t
    /\ _lock # Unlocked => calls[_lock] # Idle /\ calls[_lock].pc \in LockedPcs \cup ReleasePcs
    /\ (\E t \in Mutators : calls[t] # Idle)
          => \E t \in Mutators :
                /\ calls[t] # Idle
                /\ calls[t].pc \in AcquirePcs => _lock = Unlocked
                /\ calls[t].pc \in ReleasePcs => _lock = t

\* one thread waits for the lock while the other leaves a with block with an
\* error raised inside it
C39_Witness ==
    \E t \in Mutators, u \in Mutators :
        /\ calls[t] # Idle /\ calls[t].pc \in ReleasePcs /\ calls[t].err # NoErr
        /\ _lock = t
        /\ calls[u] # Idle /\ calls[u].pc \in AcquirePcs

====
